---- MODULE Spec2Model ----
(***************************************************************************)
(* A model of the Codex agent side panel of keldenl/relay:                 *)
(*   - the command classifier   (extensions/codex-cli/src/commandSummary)  *)
(*   - the extension host       (extensions/codex-cli/src/agentView,       *)
(*                               extensions/codex-cli/src/codexClient)     *)
(*   - the webview's reducer    (webview/src/hooks/useHostMessaging)       *)
(*                                                                         *)
(* JavaScript strings are TLA+ strings; an optional value (T | undefined)  *)
(* is a sequence of length 0 or 1.  Paths follow the POSIX flavour of      *)
(* Node's path module (the fork is developed on darwin-arm64).             *)
(***************************************************************************)
EXTENDS Integers, Sequences, FiniteSets, TLC

VARIABLES
    \* ---- AgentViewProvider (extension host) ----
    viewResolved,        \* resolveWebviewView has run
    busy,                \* AgentViewProvider.busy
    authStatus,          \* AgentViewProvider.authStatus
    lastCwd,             \* AgentViewProvider.lastCwd            (optional)
    lastCommandOutput,   \* AgentViewProvider.lastCommandOutput  (optional)
    readHighlightsByDoc, \* keys of AgentViewProvider.readHighlightsByDoc
    \* ---- CodexClient: child processes and their promises ----
    runs,                \* one record per child spawned by runExec
    authOps,             \* pending refreshAuthState / handleLogin calls
    \* ---- host -> webview channel and the webview's reducer state ----
    posted,              \* every message handed to webview.postMessage, in order
    delivered,           \* how many of them the webview has handled
    ui,                  \* the reducer's State
    \* ---- a pure function applied to a drawn input ----
    cmdInput,            \* the input drawn: a command (its stages and their spelling) or a diff
    cmdResult,           \* summarizeCommand of the command (optional: not yet computed);
                         \* in SpecAuth, the outcome of the operation started last
    \* ---- bookkeeping ----
    lastOp               \* the handler that ran last, with its input and outcome

vars == << viewResolved, busy, authStatus, lastCwd, lastCommandOutput,
           readHighlightsByDoc, runs, authOps, posted, delivered, ui,
           cmdInput, cmdResult, lastOp >>

(***************************************************************************)
(* Optional values                                                         *)
(***************************************************************************)
None == << >>
Some(v) == << v >>
IsSome(o) == Len(o) > 0
Get(o) == o[1]
\* a ?? b
OrElse(o, d) == IF IsSome(o) THEN o[1] ELSE d
\* first element of a sequence satisfying nothing in particular: Array.prototype[0]
At(seq, i) == IF i >= 1 /\ i <= Len(seq) THEN Some(seq[i]) ELSE None

(***************************************************************************)
(* String helpers (String.prototype)                                       *)
(***************************************************************************)
Chr(s, i) == SubSeq(s, i, i)
Chars(s) == [i \in 1..Len(s) |-> SubSeq(s, i, i)]

\* /\s/ restricted to the white space the inputs use
IsSpace(c) == c \in {" ", "\t", "\n", "\r"}
Digits == {"0", "1", "2", "3", "4", "5", "6", "7", "8", "9"}
Letters == {"a", "b", "c", "d", "e", "f", "g", "h", "i", "j", "k", "l", "m",
            "n", "o", "p", "q", "r", "s", "t", "u", "v", "w", "x", "y", "z",
            "A", "B", "C", "D", "E", "F", "G", "H", "I", "J", "K", "L", "M",
            "N", "O", "P", "Q", "R", "S", "T", "U", "V", "W", "X", "Y", "Z"}

RECURSIVE TrimStart(_)
TrimStart(s) ==
    IF Len(s) > 0 /\ IsSpace(Chr(s, 1)) THEN TrimStart(SubSeq(s, 2, Len(s))) ELSE s

RECURSIVE TrimEnd(_)
TrimEnd(s) ==
    IF Len(s) > 0 /\ IsSpace(Chr(s, Len(s))) THEN TrimEnd(SubSeq(s, 1, Len(s) - 1)) ELSE s

Trim(s) == TrimEnd(TrimStart(s))

StartsWith(s, p) == Len(p) <= Len(s) /\ SubSeq(s, 1, Len(p)) = p
EndsWith(s, p) == Len(p) <= Len(s) /\ SubSeq(s, Len(s) - Len(p) + 1, Len(s)) = p
Includes(s, p) == \E i \in 1..(Len(s) - Len(p) + 1) : SubSeq(s, i, i + Len(p) - 1) = p
\* String.prototype.indexOf, 1-based; 0 when absent
IndexOf(s, p) ==
    IF Includes(s, p)
    THEN CHOOSE i \in 1..(Len(s) - Len(p) + 1) :
            /\ SubSeq(s, i, i + Len(p) - 1) = p
            /\ \A j \in 1..(i - 1) : SubSeq(s, j, j + Len(p) - 1) # p
    ELSE 0
LastIndexOf(s, p) ==
    IF Includes(s, p)
    THEN CHOOSE i \in 1..(Len(s) - Len(p) + 1) :
            /\ SubSeq(s, i, i + Len(p) - 1) = p
            /\ \A j \in (i + 1)..(Len(s) - Len(p) + 1) : SubSeq(s, j, j + Len(p) - 1) # p
    ELSE 0

\* String.prototype.split on a one-character separator
RECURSIVE SplitChar(_, _)
SplitChar(s, sep) ==
    LET i == IndexOf(s, sep)
    IN  IF i = 0 THEN << s >>
        ELSE << SubSeq(s, 1, i - 1) >> \o SplitChar(SubSeq(s, i + 1, Len(s)), sep)

\* Array.prototype.join
RECURSIVE Join(_, _)
Join(seq, sep) ==
    IF Len(seq) = 0 THEN ""
    ELSE IF Len(seq) = 1 THEN seq[1]
    ELSE seq[1] \o sep \o Join(Tail(seq), sep)

\* Array.prototype.filter
Filter(seq, P(_)) ==
    LET F[i \in 0..Len(seq)] ==
            IF i = 0 THEN << >>
            ELSE IF P(seq[i]) THEN Append(F[i - 1], seq[i]) ELSE F[i - 1]
    IN  F[Len(seq)]

\* Array.prototype.find, as an optional
Find(seq, P(_)) == At(Filter(seq, P), 1)

\* Array.prototype.findIndex, 1-based; 0 when absent
FindIndex(seq, P(_)) ==
    IF \E i \in 1..Len(seq) : P(seq[i])
    THEN CHOOSE i \in 1..Len(seq) : P(seq[i]) /\ \A j \in 1..(i - 1) : ~P(seq[j])
    ELSE 0

Range(seq) == { seq[i] : i \in 1..Len(seq) }

\* s.replace(/\\/g, '/')
RECURSIVE BackslashesToSlashes(_)
BackslashesToSlashes(s) ==
    IF Len(s) = 0 THEN ""
    ELSE (IF Chr(s, 1) = "\\" THEN "/" ELSE Chr(s, 1)) \o BackslashesToSlashes(SubSeq(s, 2, Len(s)))

\* s.replace(/\/+$/, '')
RECURSIVE StripTrailingSlashes(_)
StripTrailingSlashes(s) ==
    IF Len(s) > 0 /\ Chr(s, Len(s)) = "/" THEN StripTrailingSlashes(SubSeq(s, 1, Len(s) - 1)) ELSE s

IsDigits(s) == Len(s) > 0 /\ \A i \in 1..Len(s) : Chr(s, i) \in Digits

DigitValue(c) ==
    CASE c = "0" -> 0 [] c = "1" -> 1 [] c = "2" -> 2 [] c = "3" -> 3 [] c = "4" -> 4
      [] c = "5" -> 5 [] c = "6" -> 6 [] c = "7" -> 7 [] c = "8" -> 8 [] c = "9" -> 9

RECURSIVE DigitsPrefix(_)
DigitsPrefix(s) ==
    IF Len(s) > 0 /\ Chr(s, 1) \in Digits
    THEN Chr(s, 1) \o DigitsPrefix(SubSeq(s, 2, Len(s)))
    ELSE ""

RECURSIVE DecimalValue(_)
DecimalValue(d) ==
    IF Len(d) = 0 THEN 0
    ELSE 10 * DecimalValue(SubSeq(d, 1, Len(d) - 1)) + DigitValue(Chr(d, Len(d)))

\* Number.parseInt(s, 10): leading white space, a sign, then the longest run
\* of digits; None stands for NaN.
ParseInt(s) ==
    LET t == TrimStart(s)
        neg == StartsWith(t, "-")
        body == IF StartsWith(t, "-") \/ StartsWith(t, "+") THEN SubSeq(t, 2, Len(t)) ELSE t
        d == DigitsPrefix(body)
    IN  IF Len(d) = 0 THEN None
        ELSE Some(IF neg THEN 0 - DecimalValue(d) ELSE DecimalValue(d))

RECURSIVE NatToString(_)
NatToString(n) ==
    LET ds == << "0", "1", "2", "3", "4", "5", "6", "7", "8", "9" >>
    IN  IF n < 10 THEN ds[n + 1] ELSE NatToString(n \div 10) \o ds[(n % 10) + 1]

\* String(n) for an integer
IntToString(n) == IF n < 0 THEN "-" \o NatToString(0 - n) ELSE NatToString(n)

Max(a, b) == IF a >= b THEN a ELSE b

(***************************************************************************)
(* Node's path module, POSIX flavour                                       *)
(***************************************************************************)
PathIsAbsolute(p) == Len(p) > 0 /\ Chr(p, 1) = "/"

PathBasename(p) ==
    LET q == StripTrailingSlashes(p)
        i == LastIndexOf(q, "/")
    IN  SubSeq(q, i + 1, Len(q))

\* normalizeString: resolve "." and ".." segments
RECURSIVE NormalizeSegments(_, _, _)
NormalizeSegments(segs, acc, allowAboveRoot) ==
    IF Len(segs) = 0 THEN acc
    ELSE LET s == segs[1]
             rest == Tail(segs)
         IN  IF s = "" \/ s = "." THEN NormalizeSegments(rest, acc, allowAboveRoot)
             ELSE IF s = ".."
                  THEN IF Len(acc) > 0 /\ acc[Len(acc)] # ".."
                       THEN NormalizeSegments(rest, SubSeq(acc, 1, Len(acc) - 1), allowAboveRoot)
                       ELSE IF allowAboveRoot
                            THEN NormalizeSegments(rest, Append(acc, ".."), allowAboveRoot)
                            ELSE NormalizeSegments(rest, acc, allowAboveRoot)
                  ELSE NormalizeSegments(rest, Append(acc, s), allowAboveRoot)

PathNormalize(p) ==
    IF Len(p) = 0 THEN "."
    ELSE LET isAbs == PathIsAbsolute(p)
             trailing == Chr(p, Len(p)) = "/"
             body == Join(NormalizeSegments(SplitChar(p, "/"), << >>, ~isAbs), "/")
             body2 == IF Len(body) = 0 /\ ~isAbs THEN "." ELSE body
             body3 == IF Len(body2) > 0 /\ trailing THEN body2 \o "/" ELSE body2
         IN  IF isAbs THEN "/" \o body3 ELSE body3

PathJoin(a, b) ==
    LET parts == Filter(<< a, b >>, LAMBDA x : Len(x) > 0)
    IN  IF Len(parts) = 0 THEN "." ELSE PathNormalize(Join(parts, "/"))

(***************************************************************************)
(* commandSummary.ts: token helpers                                        *)
(***************************************************************************)
DOUBLE_QUOTE == "\""
SINGLE_QUOTE == "'"

\* shellSplit: the loop body for one character; st = [out, cur, quote, escaped]
\* (quote is "" when no quote is open).
ShellSplitChar(st, ch) ==
    IF st.escaped
    THEN [st EXCEPT !.cur = st.cur \o ch, !.escaped = FALSE]
    ELSE IF ch = "\\" /\ st.quote # SINGLE_QUOTE
    THEN [st EXCEPT !.escaped = TRUE]
    ELSE IF st.quote # ""
    THEN IF ch = st.quote
         THEN [st EXCEPT !.quote = ""]
         ELSE [st EXCEPT !.cur = st.cur \o ch]
    ELSE IF ch = DOUBLE_QUOTE \/ ch = SINGLE_QUOTE
    THEN [st EXCEPT !.quote = ch]
    ELSE IF IsSpace(ch)
    THEN IF st.cur # ""
         THEN [st EXCEPT !.out = Append(st.out, st.cur), !.cur = ""]
         ELSE st
    ELSE [st EXCEPT !.cur = st.cur \o ch]

\* the loop over the characters of input, left to right, from state st.  It
\* is evaluated by halves, the first half before the second, so that the
\* evaluation stays shallow on long inputs.
RECURSIVE ShellSplitLoop(_, _)
RECURSIVE ShellSplitRest(_, _)
ShellSplitLoop(st, input) ==
    IF Len(input) = 0 THEN st
    ELSE IF Len(input) = 1 THEN ShellSplitChar(st, input)
    ELSE ShellSplitRest(ShellSplitLoop(st, SubSeq(input, 1, Len(input) \div 2)), input)
ShellSplitRest(mid, input) ==
    IF mid.escaped \in BOOLEAN
    THEN ShellSplitLoop(mid, SubSeq(input, Len(input) \div 2 + 1, Len(input)))
    ELSE mid

\* after the loop: the word in progress is pushed
ShellSplitEnd(end) == IF end.cur # "" THEN Append(end.out, end.cur) ELSE end.out

shellSplit(input) ==
    ShellSplitEnd(ShellSplitLoop([out |-> << >>, cur |-> "", quote |-> "", escaped |-> FALSE],
                                 input))

unwrapQuotes(text) ==
    IF Len(text) >= 2
       /\ \/ (StartsWith(text, DOUBLE_QUOTE) /\ EndsWith(text, DOUBLE_QUOTE))
          \/ (StartsWith(text, SINGLE_QUOTE) /\ EndsWith(text, SINGLE_QUOTE))
    THEN SubSeq(text, 2, Len(text) - 1)
    ELSE text

isShell(token) ==
    LET base == PathBasename(token)
    IN  base = "bash" \/ base = "zsh" \/ base = "sh"

\* unwrap `bash -lc "<script>"` and tokenize the script
UnwrapShell(tokens) ==
    IF Len(tokens) >= 3 /\ isShell(tokens[1]) /\ (tokens[2] = "-lc" \/ tokens[2] = "-c")
    THEN shellSplit(unwrapQuotes(Join(SubSeq(tokens, 3, Len(tokens)), " ")))
    ELSE tokens

\* drop a leading `yes |` / `no |`
DropYesPipe(tokens) ==
    IF Len(tokens) >= 2 /\ tokens[1] \in {"yes", "y", "no", "n"} /\ tokens[2] = "|"
    THEN SubSeq(tokens, 3, Len(tokens))
    ELSE tokens

normalizeToTokens(cmd) == DropYesPipe(UnwrapShell(shellSplit(cmd)))

IsConnector(t) == t = "&&" \/ t = "||" \/ t = "|" \/ t = ";"

splitOnConnectors(tokens) ==
    LET F[i \in 0..Len(tokens)] ==
            IF i = 0 THEN [out |-> << >>, cur |-> << >>]
            ELSE LET st == F[i - 1]
                     t == tokens[i]
                 IN  IF IsConnector(t)
                     THEN [out |-> IF Len(st.cur) > 0 THEN Append(st.out, st.cur) ELSE st.out,
                           cur |-> << >>]
                     ELSE [st EXCEPT !.cur = Append(st.cur, t)]
        end == F[Len(tokens)]
    IN  IF Len(end.cur) > 0 THEN Append(end.out, end.cur) ELSE end.out

trimAtConnector(tokens) ==
    LET idx == FindIndex(tokens, IsConnector)
    IN  IF idx = 0 THEN tokens ELSE SubSeq(tokens, 1, idx - 1)

joinTokens(tokens) == Join(tokens, " ")

\* arg without its trailing "p", split at ","
SedRangeParts(a) ==
    SplitChar(IF EndsWith(a, "p") THEN SubSeq(a, 1, Len(a) - 1) ELSE a, ",")

AllDigitParts(parts) ==
    /\ Len(parts) \in {1, 2}
    /\ \A i \in 1..Len(parts) : IsDigits(parts[i])

isValidSedRange(arg) ==
    /\ IsSome(arg)
    /\ Get(arg) # ""
    /\ AllDigitParts(SedRangeParts(Get(arg)))

\* (line numbers passed on as sed counts them, from 1)
SedRangeOf_OneBased(startNum, endNum) ==
    Some([lineStart |-> startNum, lineEnd |-> IF IsSome(endNum) THEN endNum ELSE startNum])

\* parseSedRange: [lineStart, lineEnd], both optional
\* the record parseSedRange returns for the parsed numbers (None is NaN / undefined)
SedRangeOf(startNum, endNum) ==
    LET lineStart == IF IsSome(startNum) THEN Some(Max(0, Get(startNum) - 1)) ELSE None
        \* endNum && isFinite(endNum): 0 and NaN are falsy
        lineEnd == IF IsSome(endNum) /\ Get(endNum) # 0
                   THEN Some(Max(0, Get(endNum) - 1))
                   ELSE lineStart
    IN  Some([lineStart |-> lineStart, lineEnd |-> lineEnd])

SedRangeFromParts(parts) ==
    SedRangeOf(ParseInt(parts[1]),
               \* endRaw ? parseInt(endRaw) : undefined
               IF Len(parts) >= 2 /\ parts[2] # "" THEN ParseInt(parts[2]) ELSE None)

parseSedRange(arg) ==
    IF ~isValidSedRange(arg) THEN None ELSE SedRangeFromParts(SedRangeParts(Get(arg)))

\* (a filter that no longer knows wc)
isSmallFormatting_WithoutWc(tokens, dropInPipeline) ==
    IF ~dropInPipeline \/ Len(tokens) = 0 THEN FALSE
    ELSE tokens[1] \in {"tr", "cut", "sort", "uniq", "xargs", "tee", "column", "awk", "yes", "printf"}

isSmallFormatting(tokens, dropInPipeline) ==
    IF ~dropInPipeline \/ Len(tokens) = 0 THEN FALSE
    ELSE LET head == tokens[1]
         IN  IF head \in {"wc", "tr", "cut", "sort", "uniq", "xargs", "tee",
                          "column", "awk", "yes", "printf"}
             THEN TRUE
             ELSE IF head = "head" \/ head = "tail"
             THEN Len(tokens) < 3
             ELSE IF head = "sed"
             THEN Len(tokens) < 4 \/ ~(tokens[2] = "-n" /\ isValidSedRange(At(tokens, 3)))
             ELSE FALSE

skipFlagValues(args, flagsWithValues) ==
    LET F[i \in 0..Len(args)] ==
            IF i = 0 THEN [out |-> << >>, skipNext |-> FALSE, done |-> FALSE]
            ELSE LET st == F[i - 1]
                     a == args[i]
                 IN  IF st.done THEN st
                     ELSE IF st.skipNext THEN [st EXCEPT !.skipNext = FALSE]
                     ELSE IF a = "--"
                     THEN [st EXCEPT !.out = st.out \o SubSeq(args, i + 1, Len(args)),
                                     !.done = TRUE]
                     ELSE IF StartsWith(a, "--") /\ Includes(a, "=") THEN st
                     ELSE IF a \in flagsWithValues THEN [st EXCEPT !.skipNext = TRUE]
                     ELSE [st EXCEPT !.out = Append(st.out, a)]
    IN  F[Len(args)].out

NotFlag(a) == ~StartsWith(a, "-")

firstPositional(args, flagsWithValues) ==
    Find(skipFlagValues(args, flagsWithValues), NotFlag)

findFlagValue(args, flags) ==
    LET hit(i) == args[i] \in flags /\ i + 1 <= Len(args) /\ args[i + 1] # ""
    IN  IF \E i \in 1..Len(args) : hit(i)
        THEN Some(args[(CHOOSE i \in 1..Len(args) : hit(i) /\ \A j \in 1..(i - 1) : ~hit(j)) + 1])
        ELSE None

\* index 0: "-n" drops itself and the count, "-n<num>" drops itself
StripCountFlag(a) ==
    IF Len(a) > 0 /\ StartsWith(a[1], "-n")
    THEN IF a[1] = "-n" THEN SubSeq(a, 3, Len(a)) ELSE SubSeq(a, 2, Len(a))
    ELSE a

extractHeadTailPath(args) == Find(StripCountFlag(trimAtConnector(args)), NotFlag)

\* parseHeadMeta: [path, lineStart, lineEnd] or None
HeadMetaOf(path, count) ==
    IF ~IsSome(path) THEN None
    ELSE Some([path |-> Get(path),
               lineStart |-> Some(0),
               lineEnd |-> IF IsSome(count) /\ Get(count) > 0
                           THEN Some(Max(0, Get(count) - 1))
                           ELSE None])

HeadMetaFrom(end) == HeadMetaOf(Find(end.stripped, NotFlag), end.count)

HeadMetaScan(a) ==
    LET F[i \in 0..Len(a)] ==
            IF i = 0 THEN [stripped |-> << >>, count |-> None, skip |-> FALSE]
            ELSE LET st == F[i - 1]
                     x == a[i]
                 IN  IF st.skip THEN [st EXCEPT !.skip = FALSE]
                     ELSE IF x = "-n" /\ i + 1 <= Len(a) /\ a[i + 1] # "" /\ ~StartsWith(a[i + 1], "-")
                     THEN [st EXCEPT !.count = ParseInt(a[i + 1]), !.skip = TRUE]
                     ELSE IF StartsWith(x, "-n") /\ x # "-n"
                     THEN [st EXCEPT !.count = ParseInt(SubSeq(x, 3, Len(x)))]
                     ELSE [st EXCEPT !.stripped = Append(st.stripped, x)]
    IN  HeadMetaFrom(F[Len(a)])

parseHeadMeta(args) == HeadMetaScan(trimAtConnector(args))

isAbsLike(p) ==
    \/ PathIsAbsolute(p)
    \/ (Len(p) >= 3 /\ Chr(p, 1) \in Letters /\ Chr(p, 2) = ":" /\ Chr(p, 3) = "\\")
    \/ StartsWith(p, "\\\\")

\* (joining without looking at whether rel is absolute)
joinPaths_NoAbsCheck(base, rel) == PathNormalize(PathJoin(base, rel))

joinPaths(base, rel) ==
    IF isAbsLike(rel) THEN rel ELSE PathNormalize(PathJoin(base, rel))

NoiseSegments == {"build", "dist", "node_modules", "src"}

shortDisplayPath(input) ==
    LET normalized == StripTrailingSlashes(BackslashesToSlashes(input))
        parts == Filter(SplitChar(normalized, "/"), LAMBDA x : x # "")
        keep == { i \in 1..Len(parts) : parts[i] \notin NoiseSegments }
    IN  IF keep # {}
        THEN parts[CHOOSE i \in keep : \A j \in keep : j <= i]
        ELSE IF normalized # "" THEN normalized ELSE input

(***************************************************************************)
(* commandSummary.ts: classification of one stage                          *)
(***************************************************************************)
ParsedCommand(kind, raw, name, path, query, lineStart, lineEnd) ==
    [kind |-> kind, raw |-> raw, name |-> name, path |-> path, query |-> query,
     lineStart |-> lineStart, lineEnd |-> lineEnd]

\* (a fallback that keeps only the command word and guesses a path)
UnknownCommand_HeadAndPath(tokens) ==
    ParsedCommand("unknown", tokens[1], None, At(tokens, 2), None, None, None)

UnknownCommand(tokens) ==
    ParsedCommand("unknown", joinTokens(tokens), None, None, None, None, None)

\* name: pathArg ? shortDisplayPath(pathArg) : undefined
DisplayNameOf(pathArg) ==
    IF IsSome(pathArg) THEN Some(shortDisplayPath(Get(pathArg))) ELSE None

LsValueFlags == {"-I", "-w", "--block-size", "--format", "--time-style", "--color",
                 "--quoting-style"}
FdValueFlags == {"-t", "--type", "-e", "--extension", "-E", "--exclude", "--search-path"}
NlValueFlags == {"-s", "-w", "-v", "-i", "-b"}
FindQueryFlags == {"-name", "-iname", "-path", "-regex"}

\* the entries the branches of summarizeMainTokens return
ListEntry(tokens, pathArg) ==
    ParsedCommand("list", joinTokens(tokens),
                  Some(IF IsSome(pathArg) THEN shortDisplayPath(Get(pathArg)) ELSE "."),
                  Some(OrElse(pathArg, ".")), None, None, None)

SearchEntry(tokens, query, pathArg) ==
    ParsedCommand("search", joinTokens(tokens), DisplayNameOf(pathArg), pathArg,
                  query, None, None)

\* a read of pathArg when there is one, else the unknown entry
ReadEntry(tokens, pathArg, lineStart, lineEnd) ==
    IF IsSome(pathArg)
    THEN ParsedCommand("read", joinTokens(tokens), Some(shortDisplayPath(Get(pathArg))),
                       pathArg, None, lineStart, lineEnd)
    ELSE UnknownCommand(tokens)

summarizeLs(tokens, tail) == ListEntry(tokens, firstPositional(tail, LsValueFlags))

\* query / path of rg from its non-flag arguments
RgEntry(tokens, hasFilesFlag, nonFlags) ==
    SearchEntry(tokens,
                IF hasFilesFlag THEN None ELSE At(nonFlags, 1),
                IF hasFilesFlag THEN At(nonFlags, 1) ELSE At(nonFlags, 2))

RgScan(tokens, argsNoConnector) ==
    RgEntry(tokens, "--files" \in Range(argsNoConnector), Filter(argsNoConnector, NotFlag))

summarizeRg(tokens, tail) == RgScan(tokens, trimAtConnector(tail))

QueryThenPath(tokens, nonFlags) == SearchEntry(tokens, At(nonFlags, 1), At(nonFlags, 2))

summarizeFd(tokens, tail) ==
    QueryThenPath(tokens, Filter(skipFlagValues(trimAtConnector(tail), FdValueFlags), NotFlag))

FindScan(tokens, argsNoConnector) ==
    SearchEntry(tokens,
                findFlagValue(argsNoConnector, FindQueryFlags),
                Find(argsNoConnector,
                     LAMBDA a : ~StartsWith(a, "-") /\ a # "!" /\ a # "(" /\ a # ")"))

summarizeFind(tokens, tail) == FindScan(tokens, trimAtConnector(tail))

summarizeGrep(tokens, tail) == QueryThenPath(tokens, Filter(trimAtConnector(tail), NotFlag))

CatOperands(tail) == IF Len(tail) > 0 /\ tail[1] = "--" THEN Tail(tail) ELSE tail

CatEntry(tokens, rest) ==
    IF Len(rest) = 1
    THEN ParsedCommand("read", joinTokens(tokens), Some(shortDisplayPath(rest[1])),
                       Some(rest[1]), None, Some(0), None)
    ELSE UnknownCommand(tokens)

summarizeCat(tokens, tail) == CatEntry(tokens, CatOperands(tail))

HeadEntry(tokens, headMeta) ==
    IF IsSome(headMeta)
    THEN ReadEntry(tokens, Some(Get(headMeta).path),
                   Get(headMeta).lineStart, Get(headMeta).lineEnd)
    ELSE UnknownCommand(tokens)

summarizeHead(tokens, tail) == HeadEntry(tokens, parseHeadMeta(tail))

summarizeTail(tokens, tail) == ReadEntry(tokens, extractHeadTailPath(tail), None, None)

summarizeNl(tokens, tail) ==
    ReadEntry(tokens, Find(skipFlagValues(tail, NlValueFlags), NotFlag), None, None)

SedEntry(tokens, pathArg, range) ==
    ParsedCommand("read", joinTokens(tokens), Some(shortDisplayPath(pathArg)),
                  Some(pathArg), None,
                  IF IsSome(range) THEN Get(range).lineStart ELSE None,
                  IF IsSome(range) THEN Get(range).lineEnd ELSE None)

summarizeSed(tokens, tail) ==
    IF Len(tail) >= 3 /\ tail[1] = "-n" /\ isValidSedRange(At(tail, 2)) /\ tail[3] # ""
    THEN SedEntry(tokens, tail[3], parseSedRange(At(tail, 2)))
    ELSE UnknownCommand(tokens)

summarizeMainTokens(tokens) ==
    LET head == tokens[1]
        tail == Tail(tokens)
    IN  CASE head = "ls" -> summarizeLs(tokens, tail)
          [] head = "rg" -> summarizeRg(tokens, tail)
          [] head = "fd" -> summarizeFd(tokens, tail)
          [] head = "find" -> summarizeFind(tokens, tail)
          [] head = "grep" -> summarizeGrep(tokens, tail)
          [] head = "cat" -> summarizeCat(tokens, tail)
          [] head = "head" -> summarizeHead(tokens, tail)
          [] head = "tail" -> summarizeTail(tokens, tail)
          [] head = "nl" -> summarizeNl(tokens, tail)
          [] head = "sed" -> summarizeSed(tokens, tail)
          [] OTHER -> UnknownCommand(tokens)

isSameCommand(a, b) ==
    a.kind = b.kind /\ a.raw = b.raw /\ a.path = b.path /\ a.query = b.query

WithPath(parsedCmd, joined) ==
    [parsedCmd EXCEPT !.path = Some(joined), !.name = Some(shortDisplayPath(joined))]

\* a read gets its path resolved against the directory of the preceding cd
ResolveRead(parsedCmd, cwd) ==
    IF parsedCmd.kind = "read" /\ IsSome(cwd) /\ Get(cwd) # ""
       /\ IsSome(parsedCmd.path) /\ Get(parsedCmd.path) # ""
    THEN WithPath(parsedCmd, joinPaths(Get(cwd), Get(parsedCmd.path)))
    ELSE parsedCmd

\* the loop of parseCommands over the filtered segments; st = [parsed, cwd]
ParseSegment(st, segment) ==
    IF Len(segment) = 0 THEN st
    ELSE IF segment[1] = "cd" /\ Len(segment) >= 2 /\ segment[2] # ""
    THEN [st EXCEPT !.cwd = Some(IF IsSome(st.cwd) THEN joinPaths(Get(st.cwd), segment[2])
                                                   ELSE segment[2])]
    ELSE [st EXCEPT !.parsed = Append(st.parsed, ResolveRead(summarizeMainTokens(segment), st.cwd))]

\* (dropping every entry that equals any entry kept so far)
Dedupe_AnyEarlier(parsed) ==
    LET F[i \in 0..Len(parsed)] ==
            IF i = 0 THEN << >>
            ELSE IF \E j \in 1..Len(F[i - 1]) : isSameCommand(F[i - 1][j], parsed[i])
                 THEN F[i - 1]
                 ELSE Append(F[i - 1], parsed[i])
    IN  F[Len(parsed)]

\* collapse consecutive duplicates
Dedupe(parsed) ==
    LET F[i \in 0..Len(parsed)] ==
            IF i = 0 THEN << >>
            ELSE IF Len(F[i - 1]) = 0 \/ ~isSameCommand(F[i - 1][Len(F[i - 1])], parsed[i])
                 THEN Append(F[i - 1], parsed[i])
                 ELSE F[i - 1]
    IN  F[Len(parsed)]

FilterSegments(segments) ==
    Filter(segments, LAMBDA seg : ~isSmallFormatting(seg, Len(segments) > 1))

ParseSegments(filteredSegments) ==
    LET F[i \in 0..Len(filteredSegments)] ==
            IF i = 0 THEN [parsed |-> << >>, cwd |-> None]
            ELSE ParseSegment(F[i - 1], filteredSegments[i])
    IN  F[Len(filteredSegments)].parsed

parseCommands(tokens) == Dedupe(ParseSegments(FilterSegments(splitOnConnectors(tokens))))

(***************************************************************************)
(* commandSummary.ts: presentation                                         *)
(***************************************************************************)
formatLineRange(lineStart, lineEnd) ==
    IF ~IsSome(lineStart) \/ Get(lineStart) < 0 THEN None
    ELSE IF ~IsSome(lineEnd) \/ Get(lineEnd) < Get(lineStart) THEN None
    ELSE Some(IntToString(Get(lineStart) + 1) \o "-" \o IntToString(Get(lineEnd) + 1))

formatReadLabel(read) ==
    LET base == OrElse(read.name, OrElse(read.path, read.raw))
        range == formatLineRange(read.lineStart, read.lineEnd)
    IN  IF IsSome(range) THEN base \o " " \o Get(range) ELSE base

\* Array.from(new Set(labels)): first occurrences, in order
Unique(seq) ==
    LET F[i \in 0..Len(seq)] ==
            IF i = 0 THEN << >>
            ELSE IF seq[i] \in Range(F[i - 1]) THEN F[i - 1] ELSE Append(F[i - 1], seq[i])
    IN  F[Len(seq)]

SearchPart(search) ==
    LET q == IsSome(search.query) /\ Get(search.query) # ""
        p == IsSome(search.path) /\ Get(search.path) # ""
    IN  IF q /\ p THEN "Searched \"" \o Get(search.query) \o "\" in " \o Get(search.path)
        ELSE IF q THEN "Searched \"" \o Get(search.query) \o "\""
        ELSE IF p THEN "Searched " \o Get(search.path)
        ELSE "Searched files"

\* buildSummary: None stands for undefined (nothing parsed)
OfKind(parsed, kind) == Filter(parsed, LAMBDA p : p.kind = kind)

ReadPart(reads) ==
    IF Len(reads) > 0
    THEN << "Read " \o Join(Unique([i \in 1..Len(reads) |-> formatReadLabel(reads[i])]), ", ") >>
    ELSE << >>
ListParts(lists) == [i \in 1..Len(lists) |-> "Listed " \o OrElse(lists[i].path, "files")]
SearchParts(searches) == [i \in 1..Len(searches) |-> SearchPart(searches[i])]
UnknownParts(unknowns) == [i \in 1..Len(unknowns) |-> "Ran " \o unknowns[i].raw]

buildSummary(parsed) ==
    IF Len(parsed) = 0 THEN None
    ELSE Some(Join(ReadPart(OfKind(parsed, "read")) \o ListParts(OfKind(parsed, "list"))
                     \o SearchParts(OfKind(parsed, "search"))
                     \o UnknownParts(OfKind(parsed, "unknown")), " · "))

CommandSummary(title, summary, displayCommand, parsed) ==
    [title |-> title, summary |-> summary, displayCommand |-> displayCommand,
     parsed |-> parsed]

\* (every() alone, which is true of an empty list)
allExploratory_EveryOnly(parsed) ==
    \A i \in 1..Len(parsed) : parsed[i].kind # "unknown"

allExploratory(parsed) ==
    Len(parsed) > 0 /\ \A i \in 1..Len(parsed) : parsed[i].kind # "unknown"

SummaryOf(trimmed, parsed) ==
    CommandSummary(IF allExploratory(parsed) THEN "Explored" ELSE "Ran",
                   OrElse(buildSummary(parsed), trimmed), trimmed, parsed)

SummarizeTrimmed(command, trimmed) ==
    IF trimmed = ""
    THEN CommandSummary("Ran", "Unknown command", command, << >>)
    ELSE SummaryOf(trimmed, parseCommands(normalizeToTokens(trimmed)))

summarizeCommand(command) == SummarizeTrimmed(command, Trim(command))

(***************************************************************************)
(* agentView.ts: diff helpers used by the file_change branch               *)
(***************************************************************************)
\* diff.split(/\r?\n/)
SplitLines(text) ==
    LET pieces == SplitChar(text, "\n")
    IN  [i \in 1..Len(pieces) |->
            IF i < Len(pieces) /\ EndsWith(pieces[i], "\r")
            THEN SubSeq(pieces[i], 1, Len(pieces[i]) - 1)
            ELSE pieces[i]]

\* /@@[^+]*\+(\d+)(?:,(\d+))? @@/ tried with its "@@" at position i of text:
\* the captured first number, or None.  [^+]* stops at the first "+".
\* (?:,(\d+))? @@ tried on a1, the text after the first number d1
HunkTail(d1, a1, d2) ==
    IF d1 # "" /\ StartsWith(IF d2 # "" THEN SubSeq(a1, Len(d2) + 2, Len(a1)) ELSE a1, " @@")
    THEN Some(DecimalValue(d1)) ELSE None

HunkCount(d1, a1) ==
    HunkTail(d1, a1, IF StartsWith(a1, ",") THEN DigitsPrefix(SubSeq(a1, 2, Len(a1))) ELSE "")

HunkNumber(after, d1) == HunkCount(d1, SubSeq(after, Len(d1) + 1, Len(after)))

HunkAfterPlus(rest, plus) ==
    IF plus = 0 THEN None
    ELSE HunkNumber(SubSeq(rest, plus + 1, Len(rest)),
                    DigitsPrefix(SubSeq(rest, plus + 1, Len(rest))))

HunkRest(rest) == HunkAfterPlus(rest, IndexOf(rest, "+"))

HunkAt(text, i) ==
    IF i + 1 > Len(text) \/ SubSeq(text, i, i + 1) # "@@" THEN None
    ELSE HunkRest(SubSeq(text, i + 2, Len(text)))

FirstHunk(diff, hits) ==
    IF hits = {} THEN None
    ELSE HunkAt(diff, CHOOSE i \in hits : \A j \in hits : i <= j)

parseFirstTargetLine(diff) ==
    FirstHunk(diff, { i \in 1..Len(diff) : IsSome(HunkAt(diff, i)) })

\* (a count that advances on deleted lines too)
FirstAddedLineStep_CountsDeletions(st, line, hunk) ==
    IF IsSome(hunk) THEN [st EXCEPT !.current = hunk]
    ELSE IF ~IsSome(st.current) THEN st
    ELSE IF StartsWith(line, "+++") \/ StartsWith(line, "---") THEN st
    ELSE IF StartsWith(line, "+") THEN [st EXCEPT !.result = st.current, !.done = TRUE]
    ELSE IF StartsWith(line, " ") \/ StartsWith(line, "-")
    THEN [st EXCEPT !.current = Some(Get(st.current) + 1)]
    ELSE st

\* one iteration of parseFirstAddedLine's loop; st = [current, result, done]
FirstAddedLineStep(st, line, hunk) ==
    IF IsSome(hunk) THEN [st EXCEPT !.current = hunk]
    ELSE IF ~IsSome(st.current) THEN st
    ELSE IF StartsWith(line, "+++") \/ StartsWith(line, "---") THEN st
    ELSE IF StartsWith(line, "+") THEN [st EXCEPT !.result = st.current, !.done = TRUE]
    ELSE IF StartsWith(line, " ") THEN [st EXCEPT !.current = Some(Get(st.current) + 1)]
    ELSE st

FirstAddedStep(st, line) ==
    IF st.done THEN st ELSE FirstAddedLineStep(st, line, HunkAt(line, 1))

FirstAddedIn(lines) ==
    LET F[i \in 0..Len(lines)] ==
            IF i = 0 THEN [current |-> None, result |-> None, done |-> FALSE]
            ELSE FirstAddedStep(F[i - 1], lines[i])
    IN  F[Len(lines)].result

parseFirstAddedLine(diff) == FirstAddedIn(SplitLines(diff))

\* A regular expression that is a sequence of literals and \s+ (written WS),
\* tried at position i of text.
WS == "\\s+"
RECURSIVE MatchesAt(_, _, _)
MatchesAt(text, i, pat) ==
    IF Len(pat) = 0 THEN TRUE
    ELSE IF pat[1] = WS
    THEN \E k \in 1..(Len(text) - i + 1) :
            /\ \A j \in i..(i + k - 1) : IsSpace(Chr(text, j))
            /\ MatchesAt(text, i + k, Tail(pat))
    ELSE /\ i + Len(pat[1]) - 1 <= Len(text)
         /\ SubSeq(text, i, i + Len(pat[1]) - 1) = pat[1]
         /\ MatchesAt(text, i + Len(pat[1]), Tail(pat))

\* ^ under the m flag
AtLineStart(text, i) == i = 1 \/ Chr(text, i - 1) \in {"\n", "\r"}

MatchesAnywhere(text, pat) == \E i \in 1..Len(text) : MatchesAt(text, i, pat)
MatchesAtSomeLineStart(text, pat) ==
    \E i \in 1..Len(text) : AtLineStart(text, i) /\ MatchesAt(text, i, pat)

matchesCandidate(text, candidates) ==
    \E n \in 1..Len(candidates) :
        LET cand == candidates[n]
        IN  \/ MatchesAnywhere(text, << "Update File:", WS, cand >>)
            \/ \E verb \in {"Update", "Add", "Delete"} :
                   MatchesAnywhere(text, << "***", WS, verb \o " File:", WS, cand >>)
            \/ MatchesAtSomeLineStart(text, << "diff --git", WS, "a/" \o cand, WS, "b/" \o cand >>)
            \/ MatchesAtSomeLineStart(text, << "+++", WS, "b/" \o cand >>)

BeginPatch == "*** Begin Patch"
EndPatch == "*** End Patch"

\* lastOutput.matchAll(/\*\*\* Begin Patch[\s\S]*?\*\*\* End Patch/g)
RECURSIVE PatchBlocks(_)
PatchBlocks(text) ==
    LET b == IndexOf(text, BeginPatch)
    IN  IF b = 0 THEN << >>
        ELSE LET after == SubSeq(text, b + Len(BeginPatch), Len(text))
                 e == IndexOf(after, EndPatch)
             IN  IF e = 0 THEN << >>
                 ELSE << BeginPatch \o SubSeq(after, 1, e + Len(EndPatch) - 1) >>
                      \o PatchBlocks(SubSeq(after, e + Len(EndPatch), Len(after)))

\* lastOutput.split(/(?=^diff --git\s+)/m)
GitSections(text) ==
    LET cuts == { i \in 2..Len(text) :
                    AtLineStart(text, i) /\ MatchesAt(text, i, << "diff --git", WS >>) }
        starts == {1} \cup cuts
        n == Cardinality(starts)
        StartAt(k) == CHOOSE c \in starts : Cardinality({ d \in starts : d <= c }) = k
    IN  [k \in 1..n |->
            SubSeq(text, StartAt(k), IF k = n THEN Len(text) ELSE StartAt(k + 1) - 1)]

FirstMatching(seq, P(_)) == Find(seq, P)

\* the names the path may go by in the output: as given, relative to cwd, basename
DiffCandidates(normalized, cwd, normCwd) ==
    Unique(<< normalized >>
           \o (IF IsSome(cwd) /\ Get(cwd) # "" /\ StartsWith(normalized, normCwd \o "/")
               THEN << SubSeq(normalized, Len(normCwd) + 2, Len(normalized)) >>
               ELSE << >>)
           \o << PathBasename(normalized) >>)

PatchBlockFor(out, candidates) ==
    IF Includes(out, BeginPatch)
    THEN FirstMatching(PatchBlocks(out), LAMBDA t : matchesCandidate(t, candidates))
    ELSE None

GitSectionFor(out, candidates) ==
    IF Includes(out, "diff --git")
    THEN FirstMatching(Filter(GitSections(out), LAMBDA t : Len(Trim(t)) > 0),
                       LAMBDA t : matchesCandidate(t, candidates))
    ELSE None

LooseMatch(out, candidates) ==
    \E n \in 1..Len(candidates) :
        \/ MatchesAnywhere(out, << "Update File:", WS, candidates[n] >>)
        \/ MatchesAnywhere(out, << "diff --git", WS, "a/" \o candidates[n],
                                   WS, "b/" \o candidates[n] >>)

FallbackChoice(out, block, section, loose) ==
    IF IsSome(block) THEN block
    ELSE IF IsSome(section) THEN Some(TrimEnd(Get(section)))
    ELSE IF loose THEN Some(out)
    ELSE IF Includes(out, BeginPatch) \/ StartsWith(out, "diff --git") THEN Some(out)
    ELSE None

FallbackFor(out, candidates) ==
    FallbackChoice(out, PatchBlockFor(out, candidates), GitSectionFor(out, candidates),
                   LooseMatch(out, candidates))

fallbackDiffFromLastCommand(targetPath, cwd, lastOutput) ==
    IF ~IsSome(lastOutput) \/ Get(lastOutput) = "" THEN None
    ELSE FallbackFor(Get(lastOutput),
                     DiffCandidates(BackslashesToSlashes(targetPath), cwd,
                                    IF IsSome(cwd) THEN BackslashesToSlashes(Get(cwd)) ELSE ""))

\* gitDiffForPath: git is outside the program; git stands for what the three
\* "git diff" strategies would find for the path (None: not a repository,
\* every strategy failed or printed nothing).
gitDiffForPath(cwd, absPath, git) ==
    IF ~IsSome(cwd) \/ Get(cwd) = "" \/ absPath = "" THEN None
    ELSE IF IsSome(git) /\ Trim(Get(git)) # "" THEN git
    ELSE None

(***************************************************************************)
(* shared/messages.ts: host -> webview messages                            *)
(***************************************************************************)
AuthStatuses == {"checking", "loggedIn", "loggedOut", "loggingIn", "error"}

\* { type: 'appendMessage' } & AgentMessage; every AgentMessage field is optional
AppendMessage(role, text, command, friendlyTitle, friendlySummary, targets, parsed, fileChanges) ==
    [type |-> "appendMessage", role |-> role, text |-> text, command |-> command,
     friendlyTitle |-> friendlyTitle, friendlySummary |-> friendlySummary,
     targets |-> targets, parsed |-> parsed, fileChanges |-> fileChanges]

TextMessage(role, text) ==
    AppendMessage(Some(role), Some(text), None, None, None, None, None, None)

ClearMessagesMessage == [type |-> "clearMessages"]
ReasoningStateMessage(effort) == [type |-> "reasoningState", effort |-> effort]
SetBusyMessage(b) == [type |-> "setBusy", busy |-> Some(b)]
ReasoningUpdateMessage(text) == [type |-> "reasoningUpdate", text |-> text]
AuthStateMessage(status, detail) == [type |-> "authState", status |-> status, detail |-> detail]

(***************************************************************************)
(* codexClient.ts: the bundled binary and the errors of a run              *)
(***************************************************************************)
\* getBundledCodexPath(context): the per-platform path under bin/
CodexPath == "/ext/codex-cli/bin/darwin-arm64/codex"

CodexBinaryError(message, binaryPath) ==
    [name |-> "CodexBinaryError", message |-> message, code |-> None]
PlainError(message) == [name |-> "Error", message |-> message, code |-> None]
\* the error of child.on('error'): an ErrnoException of the failed spawn
SpawnError(code) ==
    [name |-> "Error", message |-> "spawn " \o CodexPath \o " " \o code, code |-> Some(code)]

\* what fs reports about the binary: existsSync, statSync().isFile(),
\* statSync().size, accessSync(X_OK)
BinaryFile(exists, isFile, size, executable) ==
    [exists |-> exists, isFile |-> isFile, size |-> size, executable |-> executable]

\* (an ensureBinaryUsable without the zero-byte placeholder test)
ensureBinaryUsable_NoSizeCheck(codexPath, file, platform) ==
    IF ~file.exists \/ ~file.isFile
    THEN Some(CodexBinaryError("Bundled Codex CLI not found. Please place the Codex CLI binary at: "
                               \o codexPath \o " and mark it executable (chmod +x).", codexPath))
    ELSE IF platform # "win32" /\ ~file.executable
    THEN Some(CodexBinaryError("Bundled Codex CLI is not executable. Please run: chmod +x \""
                               \o codexPath \o "\".", codexPath))
    ELSE None

\* ensureBinaryUsable: the error it throws, or None when it returns
ensureBinaryUsable(codexPath, file, platform) ==
    IF ~file.exists
    THEN Some(CodexBinaryError("Bundled Codex CLI not found. Please place the Codex CLI binary at: "
                               \o codexPath \o " and mark it executable (chmod +x).", codexPath))
    ELSE IF ~file.isFile
    THEN Some(CodexBinaryError("Bundled Codex CLI not found. Please place the Codex CLI binary at: "
                               \o codexPath \o " and mark it executable (chmod +x).", codexPath))
    ELSE IF file.size = 0
    THEN Some(CodexBinaryError("Bundled Codex CLI looks like a placeholder (zero bytes). Replace it with the real binary at: "
                               \o codexPath \o " and mark it executable (chmod +x).", codexPath))
    ELSE IF platform # "win32" /\ ~file.executable
    THEN Some(CodexBinaryError("Bundled Codex CLI is not executable. Please run: chmod +x \""
                               \o codexPath \o "\".", codexPath))
    ELSE None

\* resolveUsableCodexPath: the error thrown, or None when the path is returned
resolveUsableCodexPath(file, platform) == ensureBinaryUsable(CodexPath, file, platform)

\* `Codex exited with code ${code}`; a child killed by a signal exits with null
ExitCodeText(code) == IF IsSome(code) THEN IntToString(Get(code)) ELSE "null"

\* JSON.parse on the lines the model's child processes print: the documents
\* below parse to the values beside them, every other text is a SyntaxError.
JsonObject(type, item) == [json |-> "object", type |-> type, item |-> item]
JsonNull == [json |-> "null", type |-> None, item |-> None]

Item(type, text, command, aggregated_output, changes) ==
    [type |-> type, text |-> text, command |-> command,
     aggregated_output |-> aggregated_output, changes |-> changes]
Change(path, kind, diff) == [path |-> path, kind |-> kind, diff |-> diff]

EvtItem(evtType, itemType, text) ==
    JsonObject(Some(evtType), Some(Item(Some(itemType), text, None, None, None)))
EvtCommand(evtType, command, output) ==
    JsonObject(Some(evtType), Some(Item(Some("command_execution"), None, command, output, None)))
EvtFileChange(evtType, changes) ==
    JsonObject(Some(evtType), Some(Item(Some("file_change"), None, None, None, changes)))
EvtPlain(evtType) == JsonObject(Some(evtType), None)

(***************************************************************************)
(* agentView.ts: AgentViewProvider                                         *)
(***************************************************************************)
formatFriendlyError(err) ==
    IF err.name = "CodexBinaryError" THEN err.message
    ELSE IF err.code = Some("ENOENT") THEN "Codex CLI binary not found or not executable."
    ELSE err.message

\* handleRunError: [handled, posts]
handleRunError(err) ==
    IF err.name = "CodexBinaryError" \/ err.code = Some("ENOENT")
    THEN [handled |-> TRUE,
          posts |-> << TextMessage("assistant", formatFriendlyError(err)),
                       TextMessage("assistant", "Codex CLI unavailable.") >>]
    ELSE [handled |-> FALSE, posts |-> << >>]

\* handlePrompt after "await runExec": outcome is None when the promise
\* resolved and the error when it rejected.  The messages it posts; busy is
\* false afterwards.
HandlePromptCatch(outcome) ==
    IF ~IsSome(outcome) THEN << >>
    ELSE LET h == handleRunError(Get(outcome))
         IN  IF h.handled THEN h.posts
             ELSE << TextMessage("assistant", formatFriendlyError(Get(outcome))) >>

\* (a handlePrompt whose finally block forgot the reset)
HandlePromptFinally_StillBusy == [busy |-> TRUE, posts |-> << SetBusyMessage(TRUE) >>]

\* the finally block: the value it gives this.busy and what it posts
HandlePromptFinally == [busy |-> FALSE, posts |-> << SetBusyMessage(FALSE) >>]

\* (a handlePrompt that resets busy after the await instead of in finally)
handlePromptSettled_ResetOnSuccessOnly(outcome) ==
    IF IsSome(outcome)
    THEN [busy |-> TRUE, posts |-> HandlePromptCatch(outcome)]
    ELSE [busy |-> FALSE, posts |-> << SetBusyMessage(FALSE) >>]

handlePromptSettled(outcome) ==
    [busy |-> HandlePromptFinally.busy,
     posts |-> HandlePromptCatch(outcome) \o HandlePromptFinally.posts]

\* ---- forwardCodexEvent ------------------------------------------------
\* A result of forwardCodexEvent: the messages posted, the new
\* lastCommandOutput, and whether it threw (the caller's try/catch logs it).
ForwardResult(posts, out, threw) == [posts |-> posts, lastCommandOutput |-> out, threw |-> threw]

ChangeVerb(kind) ==
    IF kind = Some("delete") THEN "Deleted" ELSE IF kind = Some("add") THEN "Added" ELSE "Updated"

\* String.prototype.toLowerCase on the kinds the events carry
ToLowerCase(s) ==
    CASE s = "Add" -> "add" [] s = "Delete" -> "delete" [] s = "Update" -> "update"
      [] s = "ADD" -> "add" [] OTHER -> s

\* const line = inferredDiff ? parseFirstAddedLine(..) ?? parseFirstTargetLine(..) : undefined
FirstLineOf(inferredDiff) ==
    IF IsSome(inferredDiff) /\ Get(inferredDiff) # ""
    THEN IF IsSome(parseFirstAddedLine(Get(inferredDiff)))
         THEN parseFirstAddedLine(Get(inferredDiff))
         ELSE parseFirstTargetLine(Get(inferredDiff))
    ELSE None

\* { ...change, absPath, line, kind: kind || change.kind, diff: inferredDiff }
Enriched(change, absPath, inferredDiff, kind) ==
    [path |-> Get(change.path), absPath |-> absPath, line |-> FirstLineOf(inferredDiff),
     kind |-> IF kind # "" THEN Some(kind) ELSE change.kind,
     diff |-> inferredDiff]

\* change.diff ?? gitDiffForPath(..) ?? fallbackDiffFromLastCommand(..)
InferredDiff(change, fromGit, cwd, lastOutput) ==
    IF IsSome(change.diff) THEN change.diff
    ELSE IF IsSome(fromGit) THEN fromGit
    ELSE fallbackDiffFromLastCommand(Get(change.path), cwd, lastOutput)

EnrichAt(change, absPath, cwd, lastOutput, git) ==
    Enriched(change, absPath,
             InferredDiff(change, gitDiffForPath(cwd, absPath, git), cwd, lastOutput),
             ToLowerCase(OrElse(change.kind, "")))

\* one element of `enriched`; the change has a path
EnrichChange(change, cwd, lastOutput, git) ==
    EnrichAt(change,
             IF IsSome(cwd) /\ Get(cwd) # "" /\ ~PathIsAbsolute(Get(change.path))
             THEN PathJoin(Get(cwd), Get(change.path)) ELSE Get(change.path),
             cwd, lastOutput, git)

ChangeSummary(enriched) ==
    Join([i \in 1..Len(enriched) |->
             ChangeVerb(enriched[i].kind) \o " " \o PathBasename(enriched[i].path)], ", ")

FallbackText(enriched) ==
    IF Len(enriched) > 0
    THEN Join([i \in 1..Len(enriched) |->
                  ChangeVerb(enriched[i].kind) \o " " \o enriched[i].path], "\n")
    ELSE "Applied file changes."

\* enriched.find((c) => c.diff)?.diff ?? fallbackText
FileChangeText(withDiff, enriched) ==
    IF IsSome(withDiff) THEN Get(Get(withDiff).diff) ELSE FallbackText(enriched)

FileChangeMessage(enriched, summary) ==
    AppendMessage(Some("command"),
                  Some(FileChangeText(Find(enriched, LAMBDA c : IsSome(c.diff) /\ Get(c.diff) # ""),
                                      enriched)),
                  None, Some("Edited files"),
                  Some(IF summary # "" THEN summary ELSE "Applied file changes"),
                  None, None, Some(enriched))

FileChangePosts(enriched) == << FileChangeMessage(enriched, ChangeSummary(enriched)) >>

ForwardChanges(changes, cwd, lastOutput, git) ==
    \* path.isAbsolute / path.basename reject a path that is not a string
    IF \E i \in 1..Len(changes) : ~IsSome(changes[i].path)
    THEN ForwardResult(<< >>, lastOutput, TRUE)
    ELSE ForwardResult(
             FileChangePosts([i \in 1..Len(changes) |->
                                 EnrichChange(changes[i], cwd, lastOutput, git)]),
             lastOutput, FALSE)

ForwardFileChange(item, cwd, lastOutput, git) ==
    ForwardChanges(OrElse(item.changes, << >>), cwd, lastOutput, git)

\* the absPath of a parsed entry against this.lastCwd
AbsPathOf(p, cwd) ==
    IF IsSome(p.path) /\ Get(p.path) # ""
    THEN IF PathIsAbsolute(Get(p.path)) THEN p.path
         ELSE IF IsSome(cwd) /\ Get(cwd) # "" THEN Some(PathJoin(Get(cwd), Get(p.path)))
         ELSE p.path
    ELSE None

WithAbsPath(p, cwd) ==
    [kind |-> p.kind, raw |-> p.raw, name |-> p.name, path |-> p.path, query |-> p.query,
     lineStart |-> p.lineStart, lineEnd |-> p.lineEnd, absPath |-> AbsPathOf(p, cwd)]

Target(p) ==
    [label |-> OrElse(p.name, OrElse(p.path, p.raw)), path |-> Get(p.absPath),
     isDir |-> p.kind = "list"]

TargetsFor(withAbs) == [i \in 1..Len(withAbs) |-> Target(withAbs[i])]

TargetsOf(parsedWithAbs) ==
    TargetsFor(Filter(parsedWithAbs, LAMBDA p : IsSome(p.absPath) /\ Get(p.absPath) # ""))

\* (a command message that passes the summary's title through)
CommandMessage_KeepsTitle(text, summary, parsedWithAbs) ==
    AppendMessage(Some("command"), Some(text), Some(summary.displayCommand),
                  Some(summary.title),
                  Some(summary.summary), Some(TargetsOf(parsedWithAbs)),
                  Some(parsedWithAbs), None)

CommandMessage(text, summary, parsedWithAbs) ==
    AppendMessage(Some("command"), Some(text), Some(summary.displayCommand),
                  \* Drop "Explored" wording; keep "Ran" for non-exploratory.
                  Some(IF summary.title = "Explored" THEN "" ELSE summary.title),
                  Some(summary.summary), Some(TargetsOf(parsedWithAbs)),
                  Some(parsedWithAbs), None)

CommandPosts(text, summary, cwd) ==
    << CommandMessage(text, summary,
                      [i \in 1..Len(summary.parsed) |-> WithAbsPath(summary.parsed[i], cwd)]) >>

ForwardCommand(text, command, cwd) ==
    ForwardResult(CommandPosts(text, summarizeCommand(command), cwd),
                  IF text # "" THEN Some(text) ELSE None, FALSE)

ForwardCommandExecution(item, cwd, lastOutput) ==
    ForwardCommand(OrElse(item.aggregated_output, ""), OrElse(item.command, ""), cwd)

\* (a forwardCodexEvent that summarizes a command on every event carrying one)
ForwardTyped_AnyCommandEvent(evt, itemType, cwd, lastOutput, git) ==
    IF evt.type = Some("item.completed") /\ itemType = Some("agent_message")
    THEN ForwardResult(
             << TextMessage("assistant", OrElse(Get(evt.item).text, "")),
                ReasoningUpdateMessage(None) >>, lastOutput, FALSE)
    ELSE IF evt.type \in {Some("item.completed"), Some("item.updated")}
            /\ itemType = Some("file_change")
    THEN ForwardFileChange(Get(evt.item), cwd, lastOutput, git)
    ELSE IF evt.type = Some("item.completed") /\ itemType = Some("reasoning")
    THEN ForwardResult(<< ReasoningUpdateMessage(Some(OrElse(Get(evt.item).text, ""))) >>,
                       lastOutput, FALSE)
    ELSE IF itemType = Some("command_execution")
    THEN ForwardCommandExecution(Get(evt.item), cwd, lastOutput)
    ELSE ForwardResult(<< >>, lastOutput, FALSE)

\* evt is a parsed JSON value; cwd and lastOutput are this.lastCwd and
\* this.lastCommandOutput; git is what git would answer (see gitDiffForPath).
ForwardTyped(evt, itemType, cwd, lastOutput, git) ==
    IF evt.type = Some("item.completed") /\ itemType = Some("agent_message")
    THEN ForwardResult(
             << TextMessage("assistant", OrElse(Get(evt.item).text, "")),
                ReasoningUpdateMessage(None) >>, lastOutput, FALSE)
    ELSE IF evt.type \in {Some("item.completed"), Some("item.updated")}
            /\ itemType = Some("file_change")
    THEN ForwardFileChange(Get(evt.item), cwd, lastOutput, git)
    ELSE IF evt.type = Some("item.completed") /\ itemType = Some("reasoning")
    THEN ForwardResult(<< ReasoningUpdateMessage(Some(OrElse(Get(evt.item).text, ""))) >>,
                       lastOutput, FALSE)
    ELSE IF evt.type = Some("item.completed") /\ itemType = Some("command_execution")
    THEN ForwardCommandExecution(Get(evt.item), cwd, lastOutput)
    ELSE ForwardResult(<< >>, lastOutput, FALSE)

forwardCodexEvent(evt, cwd, lastOutput, git) ==
    IF evt.json = "null"
    THEN ForwardResult(<< >>, lastOutput, TRUE)     \* evt.type of null: TypeError
    ELSE ForwardTyped(evt, IF IsSome(evt.item) THEN Get(evt.item).type ELSE None,
                      cwd, lastOutput, git)


(***************************************************************************)
(* webview/src/hooks/useHostMessaging.ts                                   *)
(***************************************************************************)
initialState ==
    [auth |-> [status |-> "checking", detail |-> None], busy |-> FALSE,
     reasoning |-> "", messages |-> << >>, reasoningEffort |-> "medium"]

\* the reducer, one operator per Action type
ReduceSetAuth(state, status, detail) ==
    [state EXCEPT !.auth = [status |-> status, detail |-> detail]]
ReduceSetBusy(state, b) ==
    [state EXCEPT !.busy = b, !.reasoning = IF b THEN state.reasoning ELSE ""]
\* (reasoning text that accumulates)
ReduceSetReasoning_Accumulate(state, text) ==
    [state EXCEPT !.reasoning = state.reasoning \o text]
ReduceSetReasoning(state, text) == [state EXCEPT !.reasoning = text]
\* (a log that grows at the front)
ReduceAppendMessage_Prepend(state, message) ==
    [state EXCEPT !.messages = << message >> \o state.messages]
ReduceAppendMessage(state, message) ==
    [state EXCEPT !.messages = Append(state.messages, message)]
ReduceSetReasoningEffort(state, effort) == [state EXCEPT !.reasoningEffort = effort]
ReduceClear(state) == [state EXCEPT !.messages = << >>, !.reasoning = ""]

\* the AgentMessage handleHostMessage builds from an appendMessage
NormalizeMessage(message) ==
    [role |-> OrElse(message.role, "assistant"), text |-> OrElse(message.text, ""),
     command |-> message.command, friendlyTitle |-> message.friendlyTitle,
     friendlySummary |-> message.friendlySummary,
     targets |-> OrElse(message.targets, << >>), parsed |-> OrElse(message.parsed, << >>),
     fileChanges |-> OrElse(message.fileChanges, << >>)]

\* handleHostMessage with its dispatches applied to the reducer state
handleHostMessage(state, message) ==
    CASE message.type = "appendMessage" ->
            ReduceAppendMessage(state, NormalizeMessage(message))
      [] message.type = "clearMessages" -> ReduceClear(state)
      [] message.type = "setBusy" ->
            LET b == OrElse(message.busy, FALSE)
                s1 == ReduceSetBusy(state, b)
            IN  IF ~b THEN ReduceSetReasoning(s1, "") ELSE s1
      [] message.type = "reasoningUpdate" ->
            ReduceSetReasoning(state, OrElse(message.text, ""))
      [] message.type = "authState" ->
            LET s1 == ReduceSetAuth(state, message.status, message.detail)
            IN  IF message.status # "loggingIn" THEN ReduceSetBusy(s1, FALSE) ELSE s1
      [] message.type = "reasoningState" -> ReduceSetReasoningEffort(state, message.effort)
      [] OTHER -> state

(***************************************************************************)
(* The environment: what the user, the file system and the child           *)
(* processes can do.  Every set is small and every bound has a name.       *)
(***************************************************************************)
MaxRuns == 2          \* children spawned by runExec
MaxLines == 2         \* stdout lines read from the children, all together
MaxPosted == 6        \* messages posted before the user stops asking
MaxAuthOps == 2       \* login / status checks the user asks for
MaxInFlight == 2      \* posted messages the webview has yet to handle when the user acts

Prompts == {"", "  ", " list files "}
WorkspaceFolders == {None, Some(<< >>), Some(<< "/ws" >>)}
Platforms == {"darwin", "win32"}

UsableBinary == BinaryFile(TRUE, TRUE, 1, TRUE)
BinaryFiles ==
    { UsableBinary,
      BinaryFile(FALSE, FALSE, 0, FALSE),     \* nothing at the path
      BinaryFile(TRUE, FALSE, 1, TRUE),       \* a directory
      BinaryFile(TRUE, TRUE, 0, TRUE),        \* a zero-byte placeholder
      BinaryFile(TRUE, TRUE, 1, FALSE) }      \* no execute permission

\* the binary as the login and status checks find it
AuthBinaryFiles == { UsableBinary, BinaryFile(FALSE, FALSE, 0, FALSE) }

LsDiff == "--- a/a.ts\n+++ b/a.ts\n@@ -1,2 +1,3 @@\n ctx\n+added\n"

LineThreadStarted == "{\"type\":\"thread.started\"}"
LineTurnCompleted == "{\"type\":\"turn.completed\"}"
LineItemStarted == "{\"type\":\"item.started\",\"item\":{\"type\":\"command_execution\",\"command\":\"ls\"}}"
LineTodoList == "{\"type\":\"item.completed\",\"item\":{\"type\":\"todo_list\"}}"
LineReasoning == "{\"type\":\"item.completed\",\"item\":{\"type\":\"reasoning\",\"text\":\"**Listing files**\"}}"
LineReasoningNext == "{\"type\":\"item.completed\",\"item\":{\"type\":\"reasoning\",\"text\":\"**Reading a.ts**\"}}"
LineCommand == "{\"type\":\"item.completed\",\"item\":{\"type\":\"command_execution\",\"command\":\"/bin/zsh -lc ls\",\"aggregated_output\":\"a.ts\"}}"
LineAgentMessage == "  {\"type\":\"item.completed\",\"item\":{\"type\":\"agent_message\",\"text\":\"Done\"}} "
LineFileChange == "{\"type\":\"item.completed\",\"item\":{\"type\":\"file_change\",\"changes\":[{\"path\":\"a.ts\",\"kind\":\"update\"}]}}"
LineNull == "null"
LineNotJson == "codex: warming up"
LineTruncated == "{\"type\":\"item.completed\""
LineBlank == "   "

\* JSON.parse: the value of a document, None for a SyntaxError
JsonParse(text) ==
    CASE text = LineThreadStarted -> Some(EvtPlain("thread.started"))
      [] text = LineTurnCompleted -> Some(EvtPlain("turn.completed"))
      [] text = LineItemStarted ->
            Some(EvtCommand("item.started", Some("ls"), None))
      [] text = LineTodoList -> Some(EvtItem("item.completed", "todo_list", None))
      [] text = LineReasoning ->
            Some(EvtItem("item.completed", "reasoning", Some("**Listing files**")))
      [] text = LineReasoningNext ->
            Some(EvtItem("item.completed", "reasoning", Some("**Reading a.ts**")))
      [] text = LineCommand ->
            Some(EvtCommand("item.completed", Some("/bin/zsh -lc ls"), Some("a.ts")))
      [] text = Trim(LineAgentMessage) ->
            Some(EvtItem("item.completed", "agent_message", Some("Done")))
      [] text = LineFileChange ->
            Some(EvtFileChange("item.completed",
                               Some(<< Change(Some("a.ts"), Some("update"), None) >>)))
      [] text = LineNull -> Some(JsonNull)
      [] OTHER -> None

\* the events this model's children print that forwardCodexEvent has no branch for
UnhandledLines == {LineTurnCompleted, LineItemStarted}
HandledLines ==
    {LineReasoning, LineReasoningNext, LineCommand, LineAgentMessage, LineFileChange}
MalformedLines == {LineNotJson, LineTruncated}
StdoutLines == UnhandledLines \cup HandledLines \cup MalformedLines \cup {LineBlank}

\* what `git diff -- <path>` prints for the file (None: git fails or prints nothing)
GitAnswers == {None, Some(LsDiff)}

(***************************************************************************)
(* Handlers of the extension host, as next-state actions                   *)
(***************************************************************************)
Op(op, outcome, run, input) == [op |-> op, outcome |-> outcome, run |-> run, input |-> input]

\* one child of runExec: its process, the lines read from its stdout so far,
\* and the state of the promise runExec returned
\* (logged counts the lines the handler gave up on with console.error)
Run(phase, lines, logged, result) ==
    [phase |-> phase, lines |-> lines, logged |-> logged, result |-> result]

\* the character U+2026 of the source's literals, spelled in ASCII
Ellipsis == "..."

\* (a status check that reports an unusable binary as "not logged in")
refreshAuthState_ErrorAsLoggedOut(file, platform) ==
    IF IsSome(resolveUsableCodexPath(file, platform))
    THEN [authStatus |-> "loggedOut", spawned |-> FALSE,
          posts |-> << AuthStateMessage("checking", Some("Checking Codex login status" \o Ellipsis)),
                       AuthStateMessage("loggedOut", Some("Not logged in")) >>]
    ELSE [authStatus |-> "checking", spawned |-> TRUE,
          posts |-> << AuthStateMessage("checking", Some("Checking Codex login status" \o Ellipsis)) >>]

\* refreshAuthState up to its await: the status it leaves, what it posts and
\* whether a `codex login status` child now runs
refreshAuthState(file, platform) ==
    LET err == resolveUsableCodexPath(file, platform)
        checking == AuthStateMessage("checking", Some("Checking Codex login status" \o Ellipsis))
    IN  IF IsSome(err)
        THEN [authStatus |-> "error", spawned |-> FALSE,
              posts |-> << checking, AuthStateMessage("error", Some(formatFriendlyError(Get(err)))) >>]
        ELSE [authStatus |-> "checking", spawned |-> TRUE, posts |-> << checking >>]

\* handleLogin up to its await
handleLogin(file, platform) ==
    LET err == resolveUsableCodexPath(file, platform)
        loggingIn == AuthStateMessage("loggingIn", Some("Opening browser for Codex login" \o Ellipsis))
    IN  IF IsSome(err)
        THEN [authStatus |-> "error", spawned |-> FALSE,
              posts |-> << loggingIn, AuthStateMessage("error", Some(formatFriendlyError(Get(err)))) >>]
        ELSE [authStatus |-> "loggingIn", spawned |-> TRUE, posts |-> << loggingIn >>]

\* the user acts on what the webview shows: it is at most MaxInFlight messages behind
InFlight == Len(posted) - delivered

\* refreshAuthState / handleLogin calls started so far
AuthStarted ==
    Cardinality({i \in 1..Len(posted) :
                    /\ posted[i].type = "authState"
                    /\ posted[i].status \in {"checking", "loggingIn"}})

\* stdout lines read so far
LinesRead ==
    LET F[i \in 0..Len(runs)] == IF i = 0 THEN 0 ELSE F[i - 1] + runs[i].lines
    IN  F[Len(runs)]

RemoveAt(seq, i) == SubSeq(seq, 1, i - 1) \o SubSeq(seq, i + 1, Len(seq))

HostUnchanged == UNCHANGED << busy, lastCwd, lastCommandOutput, readHighlightsByDoc, runs >>
CmdUnchanged == UNCHANGED << cmdInput, cmdResult >>

\* resolveWebviewView: the view is created and refreshAuthState is started
ResolveWebviewView ==
    /\ ~viewResolved
    /\ viewResolved' = TRUE
    /\ \E file \in AuthBinaryFiles, platform \in Platforms :
          LET r == refreshAuthState(file, platform)
          IN  /\ authStatus' = r.authStatus
              /\ posted' = posted \o r.posts
              /\ authOps' = IF r.spawned THEN Append(authOps, "status") ELSE authOps
    /\ lastOp' = Op("resolveWebviewView", "", 0, "")
    /\ HostUnchanged /\ CmdUnchanged /\ UNCHANGED << delivered, ui >>

\* onDidReceiveMessage, type 'requestStatus'
RequestStatus ==
    /\ viewResolved
    /\ Len(posted) < MaxPosted /\ InFlight < MaxInFlight /\ AuthStarted < MaxAuthOps
    /\ \E file \in AuthBinaryFiles, platform \in Platforms :
          LET r == refreshAuthState(file, platform)
          IN  /\ authStatus' = r.authStatus
              /\ posted' = posted \o r.posts
              /\ authOps' = IF r.spawned THEN Append(authOps, "status") ELSE authOps
    /\ lastOp' = Op("requestStatus", "", 0, "")
    /\ HostUnchanged /\ CmdUnchanged /\ UNCHANGED << viewResolved, delivered, ui >>

\* onDidReceiveMessage, type 'requestLogin'
RequestLogin ==
    /\ viewResolved
    /\ Len(posted) < MaxPosted /\ InFlight < MaxInFlight /\ AuthStarted < MaxAuthOps
    /\ \E file \in AuthBinaryFiles, platform \in Platforms :
          LET r == handleLogin(file, platform)
          IN  /\ authStatus' = r.authStatus
              /\ posted' = posted \o r.posts
              /\ authOps' = IF r.spawned THEN Append(authOps, "login") ELSE authOps
    /\ lastOp' = Op("requestLogin", "", 0, "")
    /\ HostUnchanged /\ CmdUnchanged /\ UNCHANGED << viewResolved, delivered, ui >>

\* what `codex login status` can print and exit with: [loggedIn, raw]
StatusResults == { << TRUE, "Logged in using ChatGPT" >>, << FALSE, "" >> }

\* the `codex login status` child closes (code 0 or 1) and refreshAuthState resumes
StatusCheckClosed ==
    \E i \in 1..Len(authOps), res \in StatusResults :
      LET loggedIn == res[1]
          raw == res[2]
      IN
        /\ authOps[i] = "status"
        /\ authOps' = RemoveAt(authOps, i)
        /\ authStatus' = IF loggedIn THEN "loggedIn" ELSE "loggedOut"
        /\ posted' = Append(posted,
              AuthStateMessage(authStatus',
                  Some(IF raw # "" THEN raw ELSE IF loggedIn THEN "Logged in" ELSE "Not logged in")))
        /\ lastOp' = Op("statusCheckClosed", authStatus', i, "")
        /\ HostUnchanged /\ CmdUnchanged /\ UNCHANGED << viewResolved, delivered, ui >>

\* a login or status child emits 'error': the awaiting handler's catch runs
AuthChildError ==
    \E i \in 1..Len(authOps), code \in {"ENOENT"} :
        /\ authOps' = RemoveAt(authOps, i)
        /\ authStatus' = "error"
        /\ posted' = Append(posted,
              AuthStateMessage("error", Some(formatFriendlyError(SpawnError(code)))))
        /\ lastOp' = Op("authChildError", code, i, "")
        /\ HostUnchanged /\ CmdUnchanged /\ UNCHANGED << viewResolved, delivered, ui >>

\* what `codex login` can print and exit with: [code, output]
LoginResults == { << 0, "" >>, << 1, "" >>, << 1, " Login cancelled\n" >> }

\* the `codex login` child closes: on code 0 handleLogin goes on to
\* refreshAuthState, otherwise its catch runs
LoginClosed ==
    \E i \in 1..Len(authOps), res \in LoginResults,
       file \in AuthBinaryFiles, platform \in Platforms :
      LET code == res[1]
          output == res[2]
      IN
        /\ authOps[i] = "login"
        /\ IF code = 0
           THEN LET r == refreshAuthState(file, platform)
                IN  /\ authStatus' = r.authStatus
                    /\ posted' = posted \o r.posts
                    /\ authOps' = IF r.spawned THEN Append(RemoveAt(authOps, i), "status")
                                  ELSE RemoveAt(authOps, i)
           ELSE /\ authStatus' = "error"
                /\ posted' = Append(posted,
                      AuthStateMessage("error",
                          Some(formatFriendlyError(PlainError(
                              IF Trim(output) # "" THEN Trim(output)
                              ELSE "Codex login exited with code " \o IntToString(code))))))
                /\ authOps' = RemoveAt(authOps, i)
        /\ lastOp' = Op("loginClosed", IntToString(code), i, "")
        /\ HostUnchanged /\ CmdUnchanged /\ UNCHANGED << viewResolved, delivered, ui >>

\* (a handlePrompt without the busy check)
SubmitOutcome_NoBusyCheck(prompt, workspaceFolders, file, platform) ==
    IF Trim(prompt) = "" THEN "empty"
    ELSE IF authStatus # "loggedIn" THEN "notLoggedIn"
    ELSE IF ~IsSome(workspaceFolders) \/ Len(Get(workspaceFolders)) = 0 THEN "noWorkspace"
    ELSE IF IsSome(resolveUsableCodexPath(file, platform)) THEN "binaryError"
    ELSE "launched"

\* (a handlePrompt that only refuses a session known to be logged out)
SubmitOutcome_LoggedOutOnly(prompt, workspaceFolders, file, platform) ==
    IF Trim(prompt) = "" THEN "empty"
    ELSE IF authStatus = "loggedOut" THEN "notLoggedIn"
    ELSE IF busy THEN "busy"
    ELSE IF ~IsSome(workspaceFolders) \/ Len(Get(workspaceFolders)) = 0 THEN "noWorkspace"
    ELSE IF IsSome(resolveUsableCodexPath(file, platform)) THEN "binaryError"
    ELSE "launched"

\* handlePrompt up to "await runExec", runExec's binary check included: the
\* check rejects inside the Promise executor, so catch and finally run
\* before any other handler.
SubmitOutcome(prompt, workspaceFolders, file, platform) ==
    IF Trim(prompt) = "" THEN "empty"
    ELSE IF authStatus # "loggedIn" THEN "notLoggedIn"
    ELSE IF busy THEN "busy"
    ELSE IF ~IsSome(workspaceFolders) \/ Len(Get(workspaceFolders)) = 0 THEN "noWorkspace"
    ELSE IF IsSome(resolveUsableCodexPath(file, platform)) THEN "binaryError"
    ELSE "launched"

\* (early returns that answer in the assistant's voice)
RejectionPosts_AssistantRole(outcome) ==
    CASE outcome = "notLoggedIn" ->
            << TextMessage("assistant", "Please sign in to Codex before running the agent.") >>
      [] outcome = "busy" ->
            << TextMessage("assistant", "Agent is already running. Please wait" \o Ellipsis) >>
      [] outcome = "noWorkspace" ->
            << TextMessage("assistant", "Open a folder before running the agent.") >>
      [] OTHER -> << >>

\* what the early returns of handlePrompt post
RejectionPosts(outcome) ==
    CASE outcome = "notLoggedIn" ->
            << TextMessage("system", "Please sign in to Codex before running the agent.") >>
      [] outcome = "busy" ->
            << TextMessage("system", "Agent is already running. Please wait" \o Ellipsis) >>
      [] outcome = "noWorkspace" ->
            << TextMessage("system", "Open a folder before running the agent.") >>
      [] OTHER -> << >>

\* handlePrompt run to its first await or return: the branch taken, the
\* values it leaves in this.busy and this.lastCwd, what it posts, and
\* whether runExec spawned a child
handlePrompt(prompt, workspaceFolders, file, platform) ==
    LET trimmed == Trim(prompt)
        outcome == SubmitOutcome(prompt, workspaceFolders, file, platform)
        started == << SetBusyMessage(TRUE), TextMessage("user", trimmed) >>
    IN  CASE outcome \in {"empty", "notLoggedIn", "busy", "noWorkspace"} ->
               [prompt |-> prompt, outcome |-> outcome, busy |-> busy, lastCwd |-> lastCwd,
                posts |-> RejectionPosts(outcome), spawned |-> FALSE]
          [] outcome = "binaryError" ->
               LET settled == handlePromptSettled(resolveUsableCodexPath(file, platform))
               IN  [prompt |-> prompt, outcome |-> outcome, busy |-> settled.busy,
                    lastCwd |-> Some(Get(workspaceFolders)[1]),
                    posts |-> started \o settled.posts, spawned |-> FALSE]
          [] outcome = "launched" ->
               [prompt |-> prompt, outcome |-> outcome, busy |-> TRUE,
                lastCwd |-> Some(Get(workspaceFolders)[1]),
                posts |-> started, spawned |-> TRUE]

PromptHandled(h) ==
    /\ h.spawned => Len(runs) < MaxRuns
    /\ busy' = h.busy
    /\ lastCwd' = h.lastCwd
    /\ posted' = posted \o h.posts
    /\ runs' = IF h.spawned THEN Append(runs, Run("alive", 0, 0, "pending")) ELSE runs
    /\ lastOp' = Op("submitPrompt", h.outcome, 0, h.prompt)

\* onDidReceiveMessage, type 'submitPrompt'
SubmitPrompt ==
    /\ viewResolved
    /\ Len(posted) < MaxPosted /\ InFlight < MaxInFlight
    /\ \E prompt \in Prompts, workspaceFolders \in WorkspaceFolders,
          file \in BinaryFiles, platform \in Platforms :
          PromptHandled(handlePrompt(prompt, workspaceFolders, file, platform))
    /\ CmdUnchanged
    /\ UNCHANGED << viewResolved, authStatus, lastCommandOutput, readHighlightsByDoc,
                    authOps, delivered, ui >>

\* rl.on('line'): what the handler does with one line of the child's stdout.
\* outcome "blank": ignored; "parseError": JSON.parse threw and the catch
\* logged it; "handlerThrew": onEvent threw and the same catch logged it;
\* "event": onEvent returned.  cleared: forwardCodexEvent got as far as
\* clearReadHighlights.
LineResult(outcome, posts, out, cleared) ==
    [outcome |-> outcome, posts |-> posts, lastCommandOutput |-> out, cleared |-> cleared]

Forwarded(f) ==
    LineResult(IF f.threw THEN "handlerThrew" ELSE "event", f.posts, f.lastCommandOutput, TRUE)

\* (a line handler that reports a parse failure to the user)
HandleParsed_ReportsParseError(evt, cwd, lastOutput, git) ==
    IF ~IsSome(evt)
    THEN LineResult("parseError", << TextMessage("assistant", "Failed to parse Codex event") >>,
                    lastOutput, FALSE)
    ELSE Forwarded(forwardCodexEvent(Get(evt), cwd, lastOutput, git))

HandleParsed(evt, cwd, lastOutput, git) ==
    IF ~IsSome(evt) THEN LineResult("parseError", << >>, lastOutput, FALSE)
    ELSE Forwarded(forwardCodexEvent(Get(evt), cwd, lastOutput, git))

HandleTrimmed(trimmed, cwd, lastOutput, git) ==
    IF trimmed = "" THEN LineResult("blank", << >>, lastOutput, FALSE)
    ELSE HandleParsed(JsonParse(trimmed), cwd, lastOutput, git)

lineHandler(line, cwd, lastOutput, git) == HandleTrimmed(Trim(line), cwd, lastOutput, git)

\* readline hands the next stdout line of child r to the 'line' handler.
\* Lines the child wrote before it exited may still arrive after 'exit'.
LineHandled(r, line, h) ==
    /\ runs' = [runs EXCEPT ![r].lines = @ + 1,
                            ![r].logged = IF h.outcome \in {"parseError", "handlerThrew"}
                                          THEN @ + 1 ELSE @]
    /\ readHighlightsByDoc' = IF h.cleared THEN {} ELSE readHighlightsByDoc
    /\ posted' = posted \o h.posts
    /\ lastCommandOutput' = h.lastCommandOutput
    /\ lastOp' = Op("line", h.outcome, r, line)

LineDelivered ==
    \E r \in 1..Len(runs), line \in StdoutLines :
      \E git \in IF line = LineFileChange THEN GitAnswers ELSE {None} :
        /\ runs[r].phase # "failed"
        /\ LinesRead < MaxLines
        /\ Len(posted) < MaxPosted /\ InFlight < MaxInFlight
        /\ LineHandled(r, line, lineHandler(line, lastCwd, lastCommandOutput, git))
        /\ CmdUnchanged
        /\ UNCHANGED << viewResolved, busy, authStatus, lastCwd, authOps, delivered, ui >>

\* the promise of run r settles with `outcome` and handlePrompt resumes in
\* its catch / finally; a promise already settled ignores the call
Settle(r, outcome) ==
    IF runs[r].result = "pending"
    THEN /\ busy' = handlePromptSettled(outcome).busy
         /\ posted' = posted \o handlePromptSettled(outcome).posts
    ELSE UNCHANGED << busy, posted >>

\* child.on('error'): the process could not be spawned
ChildSpawnError ==
    \E r \in 1..Len(runs), code \in {"ENOENT", "EACCES"} :
        /\ runs[r].phase = "alive" /\ runs[r].lines = 0
        /\ runs' = [runs EXCEPT ![r] = Run("failed", 0, 0, "rejected")]
        /\ Settle(r, Some(SpawnError(code)))
        /\ lastOp' = Op("childError", code, r, "")
        /\ CmdUnchanged
        /\ UNCHANGED << viewResolved, authStatus, lastCwd, lastCommandOutput,
                        readHighlightsByDoc, authOps, delivered, ui >>

ExitCodes == {Some(0), Some(1), None}

\* child.on('exit'): code is null when a signal ended the child; 'exit' may
\* also follow 'error'
ChildExit ==
    \E r \in 1..Len(runs), code \in ExitCodes :
        /\ runs[r].phase # "exited"
        /\ runs' = [runs EXCEPT ![r] =
                       Run("exited", @.lines, @.logged,
                           IF @.result # "pending" THEN @.result
                           ELSE IF code = Some(0) THEN "resolved" ELSE "rejected")]
        /\ Settle(r, IF code = Some(0) THEN None
                     ELSE Some(PlainError("Codex exited with code " \o ExitCodeText(code))))
        /\ lastOp' = Op("childExit", ExitCodeText(code), r, "")
        /\ CmdUnchanged
        /\ UNCHANGED << viewResolved, authStatus, lastCwd, lastCommandOutput,
                        readHighlightsByDoc, authOps, delivered, ui >>

\* onDidReceiveMessage, type 'openPath': a file opened with a selection gets
\* the read highlight, one opened without it only clears the old ones; a
\* directory asks for confirmation and touches nothing
OpenPath ==
    \E isDir \in BOOLEAN, selection \in BOOLEAN :
        /\ viewResolved
        /\ readHighlightsByDoc' =
              IF isDir THEN readHighlightsByDoc
              ELSE IF selection THEN {"file:///ws/a.ts"} ELSE {}
        /\ readHighlightsByDoc' # readHighlightsByDoc
        /\ lastOp' = Op("openPath", "", 0, "")
        /\ CmdUnchanged
        /\ UNCHANGED << viewResolved, busy, authStatus, lastCwd, lastCommandOutput,
                        runs, authOps, posted, delivered, ui >>

\* the webview's 'message' listener handles the next posted message
HostMessage ==
    /\ delivered < Len(posted)
    /\ delivered' = delivered + 1
    /\ ui' = handleHostMessage(ui, posted[delivered + 1])
    /\ lastOp' = Op("hostMessage", posted[delivered + 1].type, 0, "")
    /\ CmdUnchanged
    /\ UNCHANGED << viewResolved, busy, authStatus, lastCwd, lastCommandOutput,
                    readHighlightsByDoc, runs, authOps, posted >>

\* A command as the agent may spell it: its stages (each a list of words),
\* the connector between stages, the white space between words, and
\* whether the whole is wrapped as  bash -lc "<script>".
MaxStages == 3
StagePool ==
    { << "npm", "run", "ci" >>, << "echo", "a b" >>, << "git", "status" >>,
      << "cat", "a.ts" >>, << "cat" >>, << "ls" >>, << "rg", "foo", "src" >>,
      << "sed", "-i", "s/a/b/", "a.ts" >>, << "sed", "-n", "1,5p", "a.ts" >>,
      << "wc", "-l", "foo.ts" >>, << "cd", "src" >> }
StageLists == UNION {[1..n -> StagePool] : n \in 0..MaxStages}
Commands ==
    [stages : StageLists, connector : {"&&", "|", ";"}, sep : {" ", "  "}, wrapped : BOOLEAN]
NoCommand == [stages |-> << >>, connector |-> "&&", sep |-> " ", wrapped |-> FALSE]

\* the spelling of a command: a word with a blank in it is single-quoted
QuoteWord(word) == IF Includes(word, " ") THEN "'" \o word \o "'" ELSE word
RenderStage(stage, sep) == Join([i \in 1..Len(stage) |-> QuoteWord(stage[i])], sep)
RenderScript(c) ==
    Join([i \in 1..Len(c.stages) |-> RenderStage(c.stages[i], c.sep)],
         c.sep \o c.connector \o c.sep)
Render(c) ==
    IF c.wrapped THEN "bash -lc \"" \o RenderScript(c) \o "\""
    ELSE IF c.sep = " " THEN RenderScript(c)
    ELSE c.sep \o RenderScript(c) \o c.sep

\* Commands that change directory and then read a file:  cd d1 ; ... ; cd dk ;
\* <read> p, with relative, parent, dotted and absolute directories and paths.
MaxCds == 2
Dirs == {"src", "lib/", "..", "/abs", "./pkg"}
ReadPaths == {"index.ts", "../x.ts", "/etc/hosts", "./a.ts", "src/a.ts"}
ReadForms == {"cat", "sed", "head", "tail", "tail -n", "nl"}
ReadStage(form, path) ==
    CASE form = "cat" -> << "cat", path >>
      [] form = "sed" -> << "sed", "-n", "1,5p", path >>
      [] form = "head" -> << "head", "-n", "5", path >>
      [] form = "tail" -> << "tail", path >>
      [] form = "tail -n" -> << "tail", "-n", "5", path >>
      [] form = "nl" -> << "nl", path >>
DirLists == UNION {[1..k -> Dirs] : k \in 1..MaxCds}
CdStages(dirs) == [i \in 1..Len(dirs) |-> << "cd", dirs[i] >>]
CdCommands ==
    { [stages |-> Append(CdStages(dirs), ReadStage(form, path)),
       connector |-> connector, sep |-> " ", wrapped |-> wrapped] :
        dirs \in DirLists, form \in ReadForms, path \in ReadPaths,
        connector \in {"&&", ";"}, wrapped \in BOOLEAN }

\* Commands that print lines of a file:  sed -n R path, R being N, Np, A,B or
\* A,Bp over the line numbers 0..MaxLine, written plainly or with a leading
\* zero, alone or piped into wc.
MaxLine == 20
Numeral(n, pad) == IF pad THEN "0" \o NatToString(n) ELSE NatToString(n)
SedRangeText(start, end, p, pad) ==
    Numeral(start, pad) \o (IF IsSome(end) THEN "," \o Numeral(Get(end), pad) ELSE "")
                       \o (IF p THEN "p" ELSE "")
SedStage(start, end, p, pad, path) == << "sed", "-n", SedRangeText(start, end, p, pad), path >>
SedPaths == {"foo.ts", "src/a.ts"}
SedCommands ==
    { [stages |-> IF piped THEN << SedStage(start, end, p, pad, path), << "wc", "-l" >> >>
                           ELSE << SedStage(start, end, p, pad, path) >>,
       connector |-> "|", sep |-> " ", wrapped |-> wrapped,
       start |-> start, end |-> end, path |-> path] :
        start \in 0..MaxLine, end \in {None} \cup {Some(n) : n \in 0..MaxLine},
        p \in BOOLEAN, pad \in BOOLEAN, path \in SedPaths,
        piped \in BOOLEAN, wrapped \in BOOLEAN }

\* Commands that search:  rg or grep with up to MaxSearchArgs arguments, an
\* argument being a flag with its value, a flag without value, or an operand.
MaxSearchArgs == 4
SearchFlagsWithValue == { << "-g", "*.ts" >>, << "-A", "2" >> }
SearchArguments ==
    SearchFlagsWithValue \cup { << "-n" >>, << "--files" >>, << "TODO" >>, << "src" >>, << "lib" >> }
SearchArgumentLists == UNION {[1..n -> SearchArguments] : n \in 0..MaxSearchArgs}
RECURSIVE Flatten(_)
Flatten(seqs) == IF seqs = << >> THEN << >> ELSE Head(seqs) \o Flatten(Tail(seqs))
SearchCommands ==
    { [stages |-> << << program >> \o Flatten(arguments) >>,
       connector |-> "&&", sep |-> " ", wrapped |-> wrapped,
       program |-> program, arguments |-> arguments] :
        program \in {"rg", "grep"}, arguments \in SearchArgumentLists, wrapped \in BOOLEAN }

\* Commands that print files:  cat with up to MaxCatArgs arguments
MaxCatArgs == 3
CatArguments == { "--", "-n", "-A", "a.ts", "src/b.ts" }
CatCommands ==
    { [stages |-> << << "cat" >> \o arguments >>,
       connector |-> "&&", sep |-> sep, wrapped |-> wrapped, arguments |-> arguments] :
        arguments \in UNION {[1..n -> CatArguments] : n \in 0..MaxCatArgs},
        sep \in {" ", "  "}, wrapped \in BOOLEAN }

\* Commands of two stages, one of them head or tail with up to MaxHeadArgs
\* arguments (a count, a flag or a path operand), before or after the other.
MaxHeadArgs == 3
HeadArguments == { << "-n", "5" >>, << "-n5" >>, << "-q" >>, << "a.ts" >>, << "src/b.ts" >> }
HeadArgumentLists == UNION {[1..n -> HeadArguments] : n \in 0..MaxHeadArgs}
OtherStages == { << "cat", "x.ts" >>, << "ls" >>, << "git", "status" >> }
HeadTailCommands ==
    { [stages |-> IF first THEN << << program >> \o Flatten(arguments), other >>
                           ELSE << other, << program >> \o Flatten(arguments) >>,
       connector |-> connector, sep |-> " ", wrapped |-> FALSE,
       program |-> program, arguments |-> arguments, first |-> first] :
        program \in {"head", "tail"}, arguments \in HeadArgumentLists,
        other \in OtherStages, connector \in {"|", "&&"}, first \in BOOLEAN }

Init ==
    /\ viewResolved = FALSE
    /\ busy = FALSE
    /\ authStatus = "checking"
    /\ lastCwd = None
    /\ lastCommandOutput = None
    /\ readHighlightsByDoc = {}
    /\ runs = << >>
    /\ authOps = << >>
    /\ posted = << >>
    /\ delivered = 0
    /\ ui = initialState
    /\ cmdInput = NoCommand
    /\ cmdResult = None
    /\ lastOp = Op("init", "", 0, "")

Next ==
    \/ ResolveWebviewView
    \/ RequestStatus
    \/ RequestLogin
    \/ StatusCheckClosed
    \/ AuthChildError
    \/ LoginClosed
    \/ SubmitPrompt
    \/ LineDelivered
    \/ ChildSpawnError
    \/ ChildExit
    \/ OpenPath
    \/ HostMessage

Spec == Init /\ [][Next]_vars

(***************************************************************************)
(* summarizeCommand on its own: a command is drawn, then summarized        *)
(***************************************************************************)
InitCmd ==
    /\ viewResolved = FALSE
    /\ busy = FALSE
    /\ authStatus = "checking"
    /\ lastCwd = None
    /\ lastCommandOutput = None
    /\ readHighlightsByDoc = {}
    /\ runs = << >>
    /\ authOps = << >>
    /\ posted = << >>
    /\ delivered = 0
    /\ ui = initialState
    /\ cmdInput \in Commands
    /\ cmdResult = None
    /\ lastOp = Op("init", "", 0, "")

Summarize ==
    /\ cmdResult = None
    /\ cmdResult' = Some(summarizeCommand(Render(cmdInput)))
    /\ lastOp' = Op("summarizeCommand", "", 0, Render(cmdInput))
    /\ UNCHANGED << viewResolved, busy, authStatus, lastCwd, lastCommandOutput,
                    readHighlightsByDoc, runs, authOps, posted, delivered, ui, cmdInput >>

NextCmd == Summarize

SpecCmd == InitCmd /\ [][NextCmd]_vars

\* summarizeCommand on the commands that search
InitSearch ==
    /\ viewResolved = FALSE
    /\ busy = FALSE
    /\ authStatus = "checking"
    /\ lastCwd = None
    /\ lastCommandOutput = None
    /\ readHighlightsByDoc = {}
    /\ runs = << >>
    /\ authOps = << >>
    /\ posted = << >>
    /\ delivered = 0
    /\ ui = initialState
    /\ cmdInput \in SearchCommands
    /\ cmdResult = None
    /\ lastOp = Op("init", "", 0, "")

SpecSearch == InitSearch /\ [][NextCmd]_vars

\* summarizeCommand on the commands that print files
InitCat ==
    /\ viewResolved = FALSE
    /\ busy = FALSE
    /\ authStatus = "checking"
    /\ lastCwd = None
    /\ lastCommandOutput = None
    /\ readHighlightsByDoc = {}
    /\ runs = << >>
    /\ authOps = << >>
    /\ posted = << >>
    /\ delivered = 0
    /\ ui = initialState
    /\ cmdInput \in CatCommands
    /\ cmdResult = None
    /\ lastOp = Op("init", "", 0, "")

SpecCat == InitCat /\ [][NextCmd]_vars

\* summarizeCommand on the two-stage commands with head or tail
InitHeadTail ==
    /\ viewResolved = FALSE
    /\ busy = FALSE
    /\ authStatus = "checking"
    /\ lastCwd = None
    /\ lastCommandOutput = None
    /\ readHighlightsByDoc = {}
    /\ runs = << >>
    /\ authOps = << >>
    /\ posted = << >>
    /\ delivered = 0
    /\ ui = initialState
    /\ cmdInput \in HeadTailCommands
    /\ cmdResult = None
    /\ lastOp = Op("init", "", 0, "")

SpecHeadTail == InitHeadTail /\ [][NextCmd]_vars

(***************************************************************************)
(* webview/src/hooks/useAutoOpen.ts.  The hook's refs and the openPath     *)
(* messages it has posted are kept next to the reducer state, as fields    *)
(* autoOpened, renderedCount and openPaths of ui.                          *)
(***************************************************************************)
OpenPathMessage(target, start, end) ==
    [type |-> "openPath", path |-> target, isDir |-> FALSE,
     selection |-> [start |-> start, end |-> end]]

\* `${target}:${start}-${end}`
AutoOpenKey(target, start, end) ==
    target \o ":" \o NatToString(start) \o "-" \o NatToString(end)

\* part.absPath || part.path
AutoOpenTarget(part) ==
    IF IsSome(part.absPath) /\ Get(part.absPath) # "" THEN part.absPath
    ELSE IF IsSome(part.path) /\ Get(part.path) # "" THEN part.path
    ELSE None
AutoOpenStart(part) ==
    IF IsSome(part.lineStart) /\ Get(part.lineStart) > 0 THEN Get(part.lineStart) ELSE 0
AutoOpenEnd(part, start) ==
    IF IsSome(part.lineEnd) /\ Get(part.lineEnd) > start THEN Get(part.lineEnd) ELSE start

\* (a hook that does not look up the key)
AutoOpenKeyed_NoLookup(hook, target, start, end) ==
    [hook EXCEPT !.autoOpened = @ \cup {AutoOpenKey(target, start, end)},
                 !.openPaths = Append(@, OpenPathMessage(target, start, end))]

\* from the key on: skip a key already opened, else remember it and post
AutoOpenKeyed(hook, target, start, end) ==
    IF AutoOpenKey(target, start, end) \in hook.autoOpened THEN hook
    ELSE [hook EXCEPT !.autoOpened = @ \cup {AutoOpenKey(target, start, end)},
                      !.openPaths = Append(@, OpenPathMessage(target, start, end))]

\* the body of the inner loop, for one part of msg.parsed
AutoOpenPart(hook, part) ==
    IF part.kind # "read" THEN hook
    ELSE IF ~IsSome(AutoOpenTarget(part)) THEN hook
    ELSE AutoOpenKeyed(hook, Get(AutoOpenTarget(part)), AutoOpenStart(part),
                       AutoOpenEnd(part, AutoOpenStart(part)))

AutoOpenParts(hook, parts) ==
    LET F[i \in 0..Len(parts)] == IF i = 0 THEN hook ELSE AutoOpenPart(F[i - 1], parts[i])
    IN  F[Len(parts)]

\* the body of the outer loop, for one message
AutoOpenMessage(hook, msg) ==
    [(IF msg.role # "command" THEN hook ELSE AutoOpenParts(hook, msg.parsed))
        EXCEPT !.renderedCount = @ + 1]

\* the effect: messages.slice(renderedCount.current) is walked
useAutoOpen(hook, messages) ==
    LET rest == SubSeq(messages, hook.renderedCount + 1, Len(messages))
        F[i \in 0..Len(rest)] == IF i = 0 THEN hook ELSE AutoOpenMessage(F[i - 1], rest[i])
    IN  F[Len(rest)]

\* The webview receives up to MaxRendered messages; React runs the effect
\* after a render, which may follow one message or several.
MaxRendered == 3
Part(kind, path, absPath, lineStart, lineEnd) ==
    [kind |-> kind, raw |-> kind, name |-> path, path |-> path, query |-> None,
     lineStart |-> lineStart, lineEnd |-> lineEnd, absPath |-> absPath]
ReadWhole == Part("read", Some("a.ts"), None, None, None)
ReadFromZero == Part("read", Some("a.ts"), None, Some(0), None)
ReadAbsolute == Part("read", Some("a.ts"), Some("/w/a.ts"), Some(0), Some(4))
ReadBackwards == Part("read", Some("a.ts"), None, Some(3), Some(1))
ReadNothing == Part("read", None, None, Some(0), Some(4))
ListedPart == Part("list", Some("."), Some("/w"), None, None)
SearchedPart == Part("search", Some("src"), Some("/w/src"), None, None)
ParsedMessage(parsed) ==
    AppendMessage(Some("command"), Some("out"), Some("cmd"), Some("Explored"), Some("Read"),
                  None, parsed, None)
RenderedMessages ==
    { ParsedMessage(Some(ps)) :
        ps \in { << ReadWhole >>, << ReadFromZero >>, << ReadAbsolute, ListedPart >>,
                 << ReadWhole, ReadWhole >>, << ReadNothing, SearchedPart >>,
                 << ReadBackwards >> } }
        \cup { ParsedMessage(None),
               AppendMessage(Some("assistant"), Some("Done"), None, None, None, None,
                             Some(<< ReadAbsolute >>), None),
               AppendMessage(None, None, None, None, None, None, Some(<< ReadBackwards >>), None),
               ClearMessagesMessage }

InitAutoOpen ==
    /\ viewResolved = FALSE
    /\ busy = FALSE
    /\ authStatus = "checking"
    /\ lastCwd = None
    /\ lastCommandOutput = None
    /\ readHighlightsByDoc = {}
    /\ runs = << >>
    /\ authOps = << >>
    /\ posted = << >>
    /\ delivered = 0
    /\ ui = initialState @@ [autoOpened |-> {}, renderedCount |-> 0, openPaths |-> << >>]
    /\ cmdInput = NoCommand
    /\ cmdResult = None
    /\ lastOp = Op("init", "", 0, "")

\* the 'message' listener handles a message
MessageRendered ==
    /\ Len(posted) < MaxRendered
    /\ \E message \in RenderedMessages :
          /\ posted' = Append(posted, message)
          /\ ui' = handleHostMessage(ui, message)
          /\ lastOp' = Op("hostMessage", message.type, 0, "")
    /\ delivered' = delivered + 1
    /\ CmdUnchanged
    /\ UNCHANGED << viewResolved, busy, authStatus, lastCwd, lastCommandOutput,
                    readHighlightsByDoc, runs, authOps >>

\* the effect of useAutoOpen runs: messages has changed since it last ran
AutoOpenEffect ==
    /\ lastOp.op = "hostMessage"
    /\ ui' = useAutoOpen(ui, ui.messages)
    /\ lastOp' = Op("autoOpen", "", 0, "")
    /\ CmdUnchanged
    /\ UNCHANGED << viewResolved, busy, authStatus, lastCwd, lastCommandOutput,
                    readHighlightsByDoc, runs, authOps, posted, delivered >>

NextAutoOpen == MessageRendered \/ AutoOpenEffect

SpecAutoOpen == InitAutoOpen /\ [][NextAutoOpen]_vars

(***************************************************************************)
(* The login sub-flow on its own, with a record of the operation started   *)
(* last: cmdResult holds its outcome, "pending" while it is in flight.     *)
(* authOps lists the operations in flight in the order they started, so    *)
(* the one started last, while pending, is the last of authOps.            *)
(***************************************************************************)
InitAuth ==
    /\ viewResolved = FALSE
    /\ busy = FALSE
    /\ authStatus = "checking"
    /\ lastCwd = None
    /\ lastCommandOutput = None
    /\ readHighlightsByDoc = {}
    /\ runs = << >>
    /\ authOps = << >>
    /\ posted = << >>
    /\ delivered = 0
    /\ ui = initialState
    /\ cmdInput = NoCommand
    /\ cmdResult = None
    /\ lastOp = Op("init", "", 0, "")

AuthUnchanged ==
    UNCHANGED << busy, lastCwd, lastCommandOutput, readHighlightsByDoc, runs, delivered, ui,
                 cmdInput >>

\* an operation starts: r is refreshAuthState or handleLogin up to its await
AuthOperationStarted(r, kind) ==
    /\ authStatus' = r.authStatus
    /\ posted' = posted \o r.posts
    /\ authOps' = IF r.spawned THEN Append(authOps, kind) ELSE authOps
    /\ cmdResult' = Some(IF r.spawned THEN "pending" ELSE r.authStatus)

\* operation i ends with status `outcome`
AuthOperationEnded(i, outcome, detail) ==
    /\ authOps' = RemoveAt(authOps, i)
    /\ authStatus' = outcome
    /\ posted' = Append(posted, AuthStateMessage(outcome, Some(detail)))
    /\ cmdResult' = IF cmdResult = Some("pending") /\ i = Len(authOps)
                    THEN Some(outcome) ELSE cmdResult

\* resolveWebviewView
AuthViewResolved ==
    /\ ~viewResolved
    /\ viewResolved' = TRUE
    /\ \E file \in AuthBinaryFiles, platform \in Platforms :
          AuthOperationStarted(refreshAuthState(file, platform), "status")
    /\ lastOp' = Op("resolveWebviewView", "", 0, "")
    /\ AuthUnchanged

\* onDidReceiveMessage, type 'requestStatus'
AuthStatusRequested ==
    /\ viewResolved /\ AuthStarted < MaxAuthOps
    /\ \E file \in AuthBinaryFiles, platform \in Platforms :
          AuthOperationStarted(refreshAuthState(file, platform), "status")
    /\ lastOp' = Op("requestStatus", "", 0, "")
    /\ AuthUnchanged /\ UNCHANGED viewResolved

\* onDidReceiveMessage, type 'requestLogin'
AuthLoginRequested ==
    /\ viewResolved /\ AuthStarted < MaxAuthOps
    /\ \E file \in AuthBinaryFiles, platform \in Platforms :
          AuthOperationStarted(handleLogin(file, platform), "login")
    /\ lastOp' = Op("requestLogin", "", 0, "")
    /\ AuthUnchanged /\ UNCHANGED viewResolved

\* refreshAuthState resumes after checkLoginStatus
AuthStatusClosed ==
    \E i \in 1..Len(authOps), res \in StatusResults :
        /\ authOps[i] = "status"
        /\ AuthOperationEnded(i, IF res[1] THEN "loggedIn" ELSE "loggedOut",
                              IF res[2] # "" THEN res[2]
                              ELSE IF res[1] THEN "Logged in" ELSE "Not logged in")
        /\ lastOp' = Op("statusCheckClosed", authStatus', i, "")
        /\ AuthUnchanged /\ UNCHANGED viewResolved

\* the catch of refreshAuthState or handleLogin: the child emitted 'error',
\* or `codex login` exited with a code other than 0
AuthOperationFailed ==
    \E i \in 1..Len(authOps), err \in {SpawnError("ENOENT"),
                                        PlainError("Codex login exited with code 1")} :
        /\ err = PlainError("Codex login exited with code 1") => authOps[i] = "login"
        /\ AuthOperationEnded(i, "error", formatFriendlyError(err))
        /\ lastOp' = Op("authFailed", "", i, "")
        /\ AuthUnchanged /\ UNCHANGED viewResolved

\* handleLogin resumes after runLogin and goes on to refreshAuthState, a
\* status check that starts now
AuthLoginSucceeded ==
    \E i \in 1..Len(authOps), file \in AuthBinaryFiles, platform \in Platforms :
        LET r == refreshAuthState(file, platform)
        IN  /\ authOps[i] = "login"
            /\ authStatus' = r.authStatus
            /\ posted' = posted \o r.posts
            /\ authOps' = IF r.spawned THEN Append(RemoveAt(authOps, i), "status")
                          ELSE RemoveAt(authOps, i)
            /\ cmdResult' = Some(IF r.spawned THEN "pending" ELSE r.authStatus)
            /\ lastOp' = Op("loginClosed", "0", i, "")
            /\ AuthUnchanged /\ UNCHANGED viewResolved

NextAuth ==
    \/ AuthViewResolved
    \/ AuthStatusRequested
    \/ AuthLoginRequested
    \/ AuthStatusClosed
    \/ AuthOperationFailed
    \/ AuthLoginSucceeded

SpecAuth == InitAuth /\ [][NextAuth]_vars

(***************************************************************************)
(* The webview on its own: it receives any message the HostToWebviewMessage *)
(* type allows, in any order.  posted is the log of what it received.      *)
(***************************************************************************)
MaxReceived == 3
HostMessages ==
    { TextMessage("user", "hi"), TextMessage("system", "Please sign in"),
      AppendMessage(None, None, None, None, None, None, None, None),
      AppendMessage(Some("command"), Some("out"), Some("ls"), Some(""), Some("Listed ."),
                    None, None, None),
      ClearMessagesMessage,
      SetBusyMessage(TRUE), SetBusyMessage(FALSE), [type |-> "setBusy", busy |-> None],
      ReasoningUpdateMessage(Some("**Listing files**")), ReasoningUpdateMessage(None),
      AuthStateMessage("loggedIn", None), AuthStateMessage("loggingIn", Some("Opening browser")),
      AuthStateMessage("error", Some("spawn ENOENT")),
      ReasoningStateMessage("high") }

WebviewReceives ==
    /\ Len(posted) < MaxReceived
    /\ \E message \in HostMessages :
          /\ posted' = Append(posted, message)
          /\ ui' = handleHostMessage(ui, message)
          /\ lastOp' = Op("hostMessage", message.type, 0, "")
    /\ delivered' = delivered + 1
    /\ CmdUnchanged
    /\ UNCHANGED << viewResolved, busy, authStatus, lastCwd, lastCommandOutput,
                    readHighlightsByDoc, runs, authOps >>

NextWebview == WebviewReceives

SpecWebview == Init /\ [][NextWebview]_vars

(***************************************************************************)
(* The file_change branch of forwardCodexEvent on its own: a change to     *)
(* a.ts is drawn, without a diff or with a diff of up to MaxDiffLines      *)
(* lines, and the event carrying it is forwarded.                          *)
(***************************************************************************)
MaxDiffLines == 4
\* hunk headers, each with its new-file start line
DiffHeaders == { << "@@ -1,3 +1,4 @@", 1 >>, << "@@ -10,2 +12 @@ fn()", 12 >> }
DiffLinePool ==
    { h[1] : h \in DiffHeaders }
        \cup { " ctx", "+add", "-del", "--- a/a.ts", "+++ b/a.ts",
               "diff --git a/a.ts b/a.ts", "\\ No newline at end of file" }
DiffLineLists == UNION {[1..n -> DiffLinePool] : n \in 0..MaxDiffLines}
DiffInputs ==
    { [lines |-> << >>, diff |-> None] }
        \cup { [lines |-> ls, diff |-> Some(Join(ls, "\n"))] : ls \in DiffLineLists }

InitDiff ==
    /\ viewResolved = FALSE
    /\ busy = FALSE
    /\ authStatus = "checking"
    /\ lastCwd = None
    /\ lastCommandOutput = None
    /\ readHighlightsByDoc = {}
    /\ runs = << >>
    /\ authOps = << >>
    /\ posted = << >>
    /\ delivered = 0
    /\ ui = initialState
    /\ cmdInput \in DiffInputs
    /\ cmdResult = None
    /\ lastOp = Op("init", "", 0, "")

FileChangeForwarded ==
    /\ posted = << >>
    /\ posted' = forwardCodexEvent(
                     EvtFileChange("item.completed",
                                   Some(<< Change(Some("a.ts"), Some("update"), cmdInput.diff) >>)),
                     lastCwd, lastCommandOutput, None).posts
    /\ readHighlightsByDoc' = {}
    /\ lastOp' = Op("fileChange", "", 0, OrElse(cmdInput.diff, ""))
    /\ CmdUnchanged
    /\ UNCHANGED << viewResolved, busy, authStatus, lastCwd, lastCommandOutput, runs,
                    authOps, delivered, ui >>

NextDiff == FileChangeForwarded

SpecDiff == InitDiff /\ [][NextDiff]_vars

(***************************************************************************)
(* The file_change branch for a change that carries no diff, outside a     *)
(* git repository: the diff comes from the output of the last command,     *)
(* which is drawn as up to MaxBlocks pieces of patch, git diff or text.    *)
(***************************************************************************)
MaxBlocks == 2
PatchFor(p) == "*** Begin Patch\n*** Update File: " \o p \o "\n+x\n*** End Patch"
GitDiffFor(p) == "diff --git a/" \o p \o " b/" \o p \o "\n+++ b/" \o p \o "\n+x"
OutputBlocks ==
    { PatchFor("s/a.ts"), PatchFor("s/b.ts"), PatchFor("a.tsx"),
      GitDiffFor("s/a.ts"), GitDiffFor("l/b.ts"), "Done" }
OutputTexts ==
    { Join(bs, "\n") : bs \in UNION {[1..n -> OutputBlocks] : n \in 1..MaxBlocks} }
ChangedPaths == { "/w/s/a.ts", "s/a.ts", "a.ts" }
FallbackInputs ==
    { [path |-> p, cwd |-> c, output |-> o] :
        p \in ChangedPaths, c \in {None, Some("/w")},
        o \in {None} \cup { Some(t) : t \in OutputTexts } }

InitFallback ==
    /\ viewResolved = FALSE
    /\ busy = FALSE
    /\ authStatus = "checking"
    /\ cmdInput \in FallbackInputs
    /\ lastCwd = cmdInput.cwd
    /\ lastCommandOutput = cmdInput.output
    /\ readHighlightsByDoc = {}
    /\ runs = << >>
    /\ authOps = << >>
    /\ posted = << >>
    /\ delivered = 0
    /\ ui = initialState
    /\ cmdResult = None
    /\ lastOp = Op("init", "", 0, "")

FileChangeFromOutput ==
    /\ posted = << >>
    /\ posted' = forwardCodexEvent(
                     EvtFileChange("item.completed",
                                   Some(<< Change(Some(cmdInput.path), Some("update"), None) >>)),
                     lastCwd, lastCommandOutput, None).posts
    /\ readHighlightsByDoc' = {}
    /\ lastOp' = Op("fileChange", "", 0, cmdInput.path)
    /\ CmdUnchanged
    /\ UNCHANGED << viewResolved, busy, authStatus, lastCwd, lastCommandOutput, runs,
                    authOps, delivered, ui >>

NextFallback == FileChangeFromOutput

SpecFallback == InitFallback /\ [][NextFallback]_vars

(***************************************************************************)
(* The 'line' handler on a line whose JSON is a file_change event, well    *)
(* formed or not: up to MaxChanges change entries, each with or without a  *)
(* path and a diff, or a changes field that is not an array.               *)
(***************************************************************************)
MaxChanges == 2
ChangeEntries ==
    { Change(p, k, d) : p \in {None, Some("a.ts")}, k \in {None, Some("add")},
                        d \in {None, Some(LsDiff)} }
ChangeLists == {None} \cup { Some(cs) : cs \in UNION {[1..n -> ChangeEntries] : n \in 0..MaxChanges} }
FileChangeInputs ==
    { [evt |-> EvtFileChange(t, cs), cwd |-> c, git |-> g] :
        t \in {"item.completed", "item.updated"}, cs \in ChangeLists,
        c \in {None, Some("/w")}, g \in GitAnswers }

InitChanges ==
    /\ viewResolved = FALSE
    /\ busy = FALSE
    /\ authStatus = "checking"
    /\ cmdInput \in FileChangeInputs
    /\ lastCwd = cmdInput.cwd
    /\ lastCommandOutput = None
    /\ readHighlightsByDoc = {}
    /\ runs = << >>
    /\ authOps = << >>
    /\ posted = << >>
    /\ delivered = 0
    /\ ui = initialState
    /\ cmdResult = None
    /\ lastOp = Op("init", "", 0, "")

\* rl.on('line') from the parsed value on: onEvent inside the try
FileChangeLineHandled(h) ==
    /\ posted' = posted \o h.posts
    /\ lastCommandOutput' = h.lastCommandOutput
    /\ readHighlightsByDoc' = IF h.cleared THEN {} ELSE readHighlightsByDoc
    /\ lastOp' = Op("fileChangeLine", h.outcome, 0, "")

FileChangeLineDelivered ==
    /\ lastOp.op = "init"
    /\ FileChangeLineHandled(HandleParsed(Some(cmdInput.evt), lastCwd, lastCommandOutput,
                                          cmdInput.git))
    /\ CmdUnchanged
    /\ UNCHANGED << viewResolved, busy, authStatus, lastCwd, runs, authOps, delivered, ui >>

NextChanges == FileChangeLineDelivered

SpecChanges == InitChanges /\ [][NextChanges]_vars

\* summarizeCommand on the commands that cd before they read
InitCd ==
    /\ viewResolved = FALSE
    /\ busy = FALSE
    /\ authStatus = "checking"
    /\ lastCwd = None
    /\ lastCommandOutput = None
    /\ readHighlightsByDoc = {}
    /\ runs = << >>
    /\ authOps = << >>
    /\ posted = << >>
    /\ delivered = 0
    /\ ui = initialState
    /\ cmdInput \in CdCommands
    /\ cmdResult = None
    /\ lastOp = Op("init", "", 0, "")

SpecCd == InitCd /\ [][NextCmd]_vars

\* summarizeCommand on the sed range reads
InitSed ==
    /\ viewResolved = FALSE
    /\ busy = FALSE
    /\ authStatus = "checking"
    /\ lastCwd = None
    /\ lastCommandOutput = None
    /\ readHighlightsByDoc = {}
    /\ runs = << >>
    /\ authOps = << >>
    /\ posted = << >>
    /\ delivered = 0
    /\ ui = initialState
    /\ cmdInput \in SedCommands
    /\ cmdResult = None
    /\ lastOp = Op("init", "", 0, "")

SpecSed == InitSed /\ [][NextCmd]_vars

(***************************************************************************)
(* The end-to-end scenario of one run: the view is resolved with a usable  *)
(* binary, the status check reports a login, the prompt is accepted in     *)
(* folder /ws, the child prints the four events of E2EScript in order and  *)
(* exits with code 0 (its 'exit' may overtake lines still buffered), and    *)
(* the webview handles what was posted at its own pace.                    *)
(***************************************************************************)
E2EPrompt == " list files "
E2EScript == << LineReasoning, LineCommand, LineAgentMessage, LineTurnCompleted >>

E2EResolve ==
    /\ ResolveWebviewView
    /\ authOps' = << "status" >>

E2EStatusClosed ==
    /\ StatusCheckClosed
    /\ authStatus' = "loggedIn"

E2ESubmit ==
    /\ viewResolved /\ authStatus = "loggedIn" /\ runs = << >>
    /\ PromptHandled(handlePrompt(E2EPrompt, Some(<< "/ws" >>), UsableBinary, "darwin"))
    /\ CmdUnchanged
    /\ UNCHANGED << viewResolved, authStatus, lastCommandOutput, readHighlightsByDoc,
                    authOps, delivered, ui >>

E2ELine ==
    /\ Len(runs) = 1 /\ runs[1].lines < Len(E2EScript)
    /\ LineHandled(1, E2EScript[runs[1].lines + 1],
                   lineHandler(E2EScript[runs[1].lines + 1], lastCwd, lastCommandOutput, None))
    /\ CmdUnchanged
    /\ UNCHANGED << viewResolved, busy, authStatus, lastCwd, authOps, delivered, ui >>

E2EExit ==
    /\ Len(runs) = 1 /\ runs[1].phase = "alive"
    /\ ChildExit
    /\ lastOp'.outcome = "0"

NextE2E ==
    \/ E2EResolve
    \/ E2EStatusClosed
    \/ E2ESubmit
    \/ E2ELine
    \/ E2EExit
    \/ HostMessage

SpecE2E == Init /\ [][NextE2E]_vars

\* The child of a run does not stay alive for ever: its 'exit' or 'error'
\* event is eventually emitted and handled by Node's event loop.
SpecLive == Spec /\ WF_vars(ChildExit \/ ChildSpawnError)

(***************************************************************************)
(* Properties                                                              *)
(***************************************************************************)
Last(seq) == seq[Len(seq)]
PendingRuns == {r \in 1..Len(runs) : runs[r].result = "pending"}

\* the step just taken ended a run: the binary check failed inside
\* handlePrompt, or the child of a run still awaited exited or failed to start
RunEndedStep ==
    \/ lastOp'.op = "submitPrompt" /\ lastOp'.outcome = "binaryError"
    \/ /\ lastOp'.op \in {"childExit", "childError"}
       /\ runs[lastOp'.run].result = "pending"

\* C1: however a run ends (exit code 0, another exit code, a spawn error, a
\* failed binary check), the step that ends it leaves busy = FALSE and posts
\* setBusy{busy: false} as its last message; and, the child eventually
\* exiting or failing, every state with busy = TRUE is followed by one with
\* busy = FALSE.
C1_BusyAlwaysCleared ==
    /\ [][RunEndedStep =>
            /\ busy' = FALSE
            /\ Len(posted') > Len(posted)
            /\ Last(posted') = SetBusyMessage(FALSE)]_vars
    /\ (busy = TRUE) ~> (busy = FALSE)

\* a run has ended each of the four ways
C1_Witness ==
    /\ ~busy /\ Len(runs) = 2
    /\ lastOp.op = "childExit" /\ lastOp.outcome = "1" /\ lastOp.run = 2
    /\ runs[1].result = "resolved" /\ runs[2].result = "rejected"
    /\ Last(posted) = SetBusyMessage(FALSE)

IsSystemMessage(m) == m.type = "appendMessage" /\ m.role = Some("system")
AliveRuns == {r \in 1..Len(runs) : runs[r].phase = "alive"}

\* the step just taken appended exactly one message, of the system role
AppendsOneSystemMessage ==
    /\ Len(posted') = Len(posted) + 1
    /\ SubSeq(posted', 1, Len(posted)) = posted
    /\ IsSystemMessage(Last(posted'))

\* the step just taken started no child and left busy and lastCwd alone
NothingStarted == runs' = runs /\ busy' = busy /\ lastCwd' = lastCwd

\* C2 as stated: every submitPrompt handled while busy appends one
\* system-role message, starts nothing and leaves busy and lastCwd alone.
C2_Original ==
    [][(lastOp'.op = "submitPrompt" /\ busy)
           => AppendsOneSystemMessage /\ NothingStarted /\ busy' = TRUE]_vars

\* C2 (amended): at most one child of runExec is alive and at most one run is
\* awaited at any time; a submitPrompt handled while busy starts nothing and
\* leaves busy = TRUE and lastCwd unchanged; it appends exactly one
\* system-role message when the prompt has a non-whitespace character and
\* nothing at all when the prompt is empty or whitespace.
C2_OneRunAtATime ==
    /\ [](Cardinality(AliveRuns) <= 1 /\ Cardinality(PendingRuns) <= 1)
    /\ [][(lastOp'.op = "submitPrompt" /\ busy)
           => /\ NothingStarted /\ busy' = TRUE
              /\ IF Trim(lastOp'.input) = ""
                 THEN posted' = posted
                 ELSE AppendsOneSystemMessage]_vars

\* a prompt was turned away while a run was awaited
C2_Witness ==
    /\ lastOp.op = "submitPrompt" /\ lastOp.outcome = "busy"
    /\ busy /\ Cardinality(PendingRuns) = 1
    /\ Last(posted) = TextMessage("system", "Agent is already running. Please wait" \o Ellipsis)

\* C3 as stated: every prompt that is not the empty string, handled while
\* authStatus is not loggedIn, appends a system-role message and starts
\* nothing.
C3_Original ==
    [][(lastOp'.op = "submitPrompt" /\ authStatus # "loggedIn" /\ lastOp'.input # "")
           => AppendsOneSystemMessage /\ NothingStarted]_vars

\* C3 (amended): a prompt with a non-whitespace character handled while
\* authStatus is not loggedIn appends one system-role message, leaves busy
\* and lastCwd as they are and spawns nothing; a whitespace-only prompt
\* appends nothing and also changes nothing.
C3_SignInFirst ==
    [][(lastOp'.op = "submitPrompt" /\ authStatus # "loggedIn")
           => /\ NothingStarted
              /\ Trim(lastOp'.input) # "" => AppendsOneSystemMessage
              /\ Trim(lastOp'.input) = "" => posted' = posted]_vars

\* a prompt was turned away during a login, with nothing started
C3_Witness ==
    /\ lastOp.op = "submitPrompt" /\ lastOp.outcome = "notLoggedIn"
    /\ authStatus = "loggingIn" /\ ~busy /\ runs = << >> /\ lastCwd = None
    /\ Last(posted) = TextMessage("system", "Please sign in to Codex before running the agent.")

\* the step just taken handled a terminal event of a run still awaited: the
\* turn.completed event, an exit with a non-zero code, or a failure to start
TerminalEventStep ==
    \/ lastOp'.op = "line" /\ lastOp'.input = LineTurnCompleted
    \/ /\ lastOp'.op = "childExit" /\ lastOp'.outcome # "0"
       /\ runs[lastOp'.run].result = "pending"
    \/ /\ lastOp'.op = "childError"
       /\ runs[lastOp'.run].result = "pending"

\* C4 as stated: busy is false once a terminal event has been handled.
C4_Original == [][TerminalEventStep => busy' = FALSE]_vars

\* C4 (amended): busy is true exactly while a run's promise is unsettled: it
\* is false once the child's exit (any code), its spawn error or the failed
\* binary check has been handled, and the turn.completed event by itself
\* leaves busy as it was.
C4_BusyUntilSettled ==
    /\ [](busy <=> PendingRuns # {})
    /\ [][(lastOp'.op = "line" /\ lastOp'.input = LineTurnCompleted) => busy' = busy]_vars

\* turn.completed has been handled and the run is still awaited
C4_Witness ==
    /\ lastOp.op = "line" /\ lastOp.input = LineTurnCompleted /\ lastOp.outcome = "event"
    /\ busy /\ runs[lastOp.run].result = "pending"

\* the session state of AgentViewProvider is what it was before the step
SessionUnchanged ==
    /\ busy' = busy /\ authStatus' = authStatus /\ lastCwd' = lastCwd
    /\ lastCommandOutput' = lastCommandOutput
    /\ readHighlightsByDoc' = readHighlightsByDoc

\* the step just taken handled a stdout line that JSON.parse rejects
MalformedLineStep ==
    /\ lastOp'.op = "line"
    /\ Trim(lastOp'.input) # ""
    /\ JsonParse(Trim(lastOp'.input)) = None

\* C6: a stdout line that is not valid JSON posts nothing (so the reducer
\* receives nothing) and changes no session state; a valid line the same
\* child prints afterwards is forwarded as usual, after everything posted
\* before it; and the run still ends with busy = FALSE.
C6_MalformedLineSkipped ==
    /\ [][MalformedLineStep =>
             /\ posted' = posted /\ SessionUnchanged
             /\ runs'[lastOp'.run].phase = runs[lastOp'.run].phase
             /\ runs'[lastOp'.run].result = runs[lastOp'.run].result]_vars
    /\ [][(lastOp'.op = "line" /\ runs[lastOp'.run].logged > 0) =>
             /\ lastOp'.input = LineAgentMessage =>
                   posted' = posted \o << TextMessage("assistant", "Done"),
                                          ReasoningUpdateMessage(None) >>
             /\ lastOp'.input = LineReasoning =>
                   posted' = Append(posted, ReasoningUpdateMessage(Some("**Listing files**")))
             /\ lastOp'.input = LineCommand =>
                   /\ Len(posted') = Len(posted) + 1
                   /\ SubSeq(posted', 1, Len(posted)) = posted
                   /\ Last(posted').role = Some("command")]_vars
    /\ [][(/\ lastOp'.op \in {"childExit", "childError"}
           /\ runs[lastOp'.run].logged > 0
           /\ runs[lastOp'.run].result = "pending")
             => busy' = FALSE /\ Last(posted') = SetBusyMessage(FALSE)]_vars

\* a malformed line was skipped, the agent's message after it went through
\* and the run has ended
C6_Witness ==
    /\ lastOp.op = "childExit" /\ lastOp.outcome = "0"
    /\ runs[lastOp.run].logged = 1 /\ runs[lastOp.run].lines = 2
    /\ ~busy
    /\ SubSeq(posted, Len(posted) - 2, Len(posted)) =
           << TextMessage("assistant", "Done"), ReasoningUpdateMessage(None),
              SetBusyMessage(FALSE) >>

\* the type / item.type combinations forwardCodexEvent acts on
HandledCombination(type, itemType) ==
    \/ type = Some("item.completed")
       /\ itemType \in {Some("agent_message"), Some("reasoning"), Some("command_execution")}
    \/ type \in {Some("item.completed"), Some("item.updated")}
       /\ itemType = Some("file_change")

IsUnhandledEvent(evt) ==
    /\ evt.json = "object"
    /\ ~HandledCombination(evt.type, IF IsSome(evt.item) THEN Get(evt.item).type ELSE None)

EventTypes == {"thread.started", "turn.started", "turn.completed", "turn.failed",
               "item.started", "item.updated", "item.completed", "error"}
ItemTypes == {"agent_message", "reasoning", "command_execution", "file_change",
              "todo_list", "mcp_tool_call"}

\* events of every combination, with and without an item, the item carrying
\* every field a handled branch would read
FullItem(itemType) ==
    Item(Some(itemType), Some("Done"), Some("/bin/zsh -lc ls"), Some("a.ts"),
         Some(<< Change(Some("a.ts"), Some("update"), None) >>))
SampleEvents ==
    {EvtPlain(t) : t \in EventTypes} \cup
    {JsonObject(Some(t), Some(FullItem(it))) : t \in EventTypes, it \in ItemTypes} \cup
    {JsonObject(None, None), JsonObject(None, Some(FullItem("agent_message")))}
UnhandledEvents == {evt \in SampleEvents : IsUnhandledEvent(evt)}

\* the step just taken handled a stdout line carrying an unhandled event
UnhandledLineStep ==
    /\ lastOp'.op = "line"
    /\ IsSome(JsonParse(Trim(lastOp'.input)))
    /\ IsUnhandledEvent(Get(JsonParse(Trim(lastOp'.input))))

\* C7: an event whose type / item.type combination is not a handled one
\* (thread.started, turn.started, turn.completed and item.started among
\* them) makes forwardCodexEvent post nothing, throw nothing and keep
\* lastCommandOutput; the step that handles such a line leaves busy,
\* authStatus, lastCwd and lastCommandOutput as they were.
C7_UnhandledEventsIgnored ==
    /\ [](\A evt \in UnhandledEvents, git \in GitAnswers :
              forwardCodexEvent(evt, lastCwd, lastCommandOutput, git)
                  = ForwardResult(<< >>, lastCommandOutput, FALSE))
    /\ [][UnhandledLineStep =>
             /\ lastOp'.outcome = "event"
             /\ posted' = posted
             /\ busy' = busy /\ authStatus' = authStatus /\ lastCwd' = lastCwd
             /\ lastCommandOutput' = lastCommandOutput]_vars

\* an item.started event of a command arrived during a run that had already
\* recorded a command's output
C7_Witness ==
    /\ lastOp.op = "line" /\ lastOp.input = LineItemStarted /\ lastOp.outcome = "event"
    /\ busy /\ lastCommandOutput = Some("a.ts") /\ lastCwd = Some("/ws")

\* the step just taken handled a prompt with one of the four user-input
\* errors: blank prompt, not signed in, already busy, no workspace folder
UserInputErrorStep ==
    /\ lastOp'.op = "submitPrompt"
    /\ \/ Trim(lastOp'.input) = ""
       \/ authStatus # "loggedIn"
       \/ busy
       \/ lastOp'.outcome = "noWorkspace"

\* C8 as stated: each of the four user-input errors appends a system-role
\* message, launches nothing and leaves busy and lastCwd unchanged.
C8_Original ==
    [][UserInputErrorStep => AppendsOneSystemMessage /\ NothingStarted]_vars

\* C8 (amended): a prompt that is not signed in, already busy or without a
\* workspace folder is rejected in the same step by appending one
\* system-role message; an empty or whitespace-only prompt is dropped in the
\* same step without any message; none of the four launches the agent
\* process or changes busy or lastCwd.
C8_UserInputErrors ==
    [][UserInputErrorStep =>
          /\ NothingStarted
          /\ IF Trim(lastOp'.input) = ""
             THEN posted' = posted /\ lastOp'.outcome = "empty"
             ELSE /\ AppendsOneSystemMessage
                  /\ lastOp'.outcome \in {"notLoggedIn", "busy", "noWorkspace"}]_vars

\* a signed-in, idle session turned a prompt away for want of a folder
C8_Witness ==
    /\ lastOp.op = "submitPrompt" /\ lastOp.outcome = "noWorkspace"
    /\ authStatus = "loggedIn" /\ ~busy /\ runs = << >> /\ lastCwd = None
    /\ Last(posted) = TextMessage("system", "Open a folder before running the agent.")

\* the four conditions of the bundled binary that make it unusable
Unusable(file, platform) ==
    \/ ~file.exists
    \/ ~file.isFile
    \/ file.size = 0
    \/ platform # "win32" /\ ~file.executable

\* what handlePrompt does with an acceptable prompt in folder /ws
AcceptedWith(file, platform) == handlePrompt(" list files ", Some(<< "/ws" >>), file, platform)

\* e is a CodexBinaryError naming the path and h the run it ended
BinaryErrorSurfaced(e, h) ==
    /\ e.name = "CodexBinaryError"
    /\ Includes(e.message, CodexPath)
    /\ ~h.spawned
    /\ h.busy = FALSE
    /\ \E i \in 1..Len(h.posts) : h.posts[i] = TextMessage("assistant", e.message)
    /\ Last(h.posts) = SetBusyMessage(FALSE)

\* C9: when the bundled binary is missing, not a regular file, zero bytes
\* long or (off Windows) not executable, runExec rejects with a
\* CodexBinaryError whose message names the binary's path and spawns no
\* child; the run ends with that message appended as an assistant message
\* and with busy = FALSE.
C9_BinaryErrorBeforeSpawn ==
    /\ [](\A file \in BinaryFiles, platform \in Platforms :
             Unusable(file, platform) =>
                /\ IsSome(resolveUsableCodexPath(file, platform))
                /\ (authStatus = "loggedIn" /\ ~busy) =>
                      BinaryErrorSurfaced(Get(resolveUsableCodexPath(file, platform)),
                                          AcceptedWith(file, platform)))
    /\ [][(lastOp'.op = "submitPrompt" /\ lastOp'.outcome = "binaryError") =>
             /\ runs' = runs
             /\ busy' = FALSE
             /\ Len(posted') = Len(posted) + 5
             /\ posted'[Len(posted) + 2] = TextMessage("user", Trim(lastOp'.input))
             /\ posted'[Len(posted) + 3].role = Some("assistant")
             /\ Includes(Get(posted'[Len(posted) + 3].text), CodexPath)
             /\ Last(posted') = SetBusyMessage(FALSE)]_vars

\* an accepted prompt met an unusable binary: nothing was spawned and the
\* session is idle again
C9_Witness ==
    /\ lastOp.op = "submitPrompt" /\ lastOp.outcome = "binaryError"
    /\ ~busy /\ runs = << >> /\ lastCwd = Some("/ws")
    /\ Len(posted) >= 5
    /\ Includes(Get(posted[Len(posted) - 2].text), CodexPath)

\* the scenario is over: every line handled, the child gone, the webview up
\* to date
E2EDone ==
    /\ Len(runs) = 1
    /\ runs[1].lines = Len(E2EScript)
    /\ runs[1].phase = "exited"
    /\ delivered = Len(posted)

\* C5: at the end of the scenario (reasoning "**Listing files**", command
\* "/bin/zsh -lc ls", agent_message "Done", turn.completed) the webview shows
\* busy = FALSE, reasoning = "" and three messages: the user's prompt, one
\* command message with friendlyTitle "" and friendlySummary "Listed .", and
\* the assistant's "Done".
C5_EndToEnd ==
    E2EDone =>
        /\ ui.busy = FALSE
        /\ ui.reasoning = ""
        /\ Len(ui.messages) = 3
        /\ ui.messages[1].role = "user" /\ ui.messages[1].text = Trim(E2EPrompt)
        /\ ui.messages[2].role = "command"
        /\ ui.messages[2].friendlyTitle = Some("")
        /\ ui.messages[2].friendlySummary = Some("Listed .")
        /\ ui.messages[3].role = "assistant" /\ ui.messages[3].text = "Done"

\* the scenario ran to its end, the exit handled after the last line
C5_Witness ==
    /\ E2EDone
    /\ posted[Len(posted)] = SetBusyMessage(FALSE)
    /\ Len(ui.messages) = 3
    /\ ui.messages[2].command = Some("/bin/zsh -lc ls")

\* the command words the classifier has a rule for: the ten it summarizes,
\* the formatting helpers it drops from a pipeline, cd, and the yes/no feeders
KnownWords ==
    {"ls", "rg", "fd", "find", "grep", "cat", "head", "tail", "nl", "sed",
     "wc", "tr", "cut", "sort", "uniq", "xargs", "tee", "column", "awk", "yes", "printf",
     "cd", "y", "no", "n"}
ParsedKinds == {"read", "list", "search", "unknown"}

NoStructure(p) ==
    p.path = None /\ p.query = None /\ p.lineStart = None /\ p.lineEnd = None

\* parsed has the unknown entry of this stage
EmittedAsUnknown(parsed, stage) ==
    \E i \in 1..Len(parsed) :
        parsed[i] = ParsedCommand("unknown", Join(stage, " "), None, None, None, None, None)

SummaryWellFormed(r, stages) ==
    /\ r.title \in {"Explored", "Ran"}
    /\ \A i \in 1..Len(r.parsed) :
          /\ r.parsed[i].kind \in ParsedKinds
          /\ r.parsed[i].kind = "unknown" => NoStructure(r.parsed[i])
          /\ ~NoStructure(r.parsed[i]) => r.parsed[i].kind \in {"read", "list", "search"}
    /\ \A s \in 1..Len(stages) :
          stages[s][1] \notin KnownWords => EmittedAsUnknown(r.parsed, stages[s])

NoiseWords ==
    {"wc", "tr", "cut", "sort", "uniq", "xargs", "tee", "column", "awk", "yes", "printf"}
DroppedStage(stages, i) ==
    \/ stages[i][1] = "cd" /\ Len(stages[i]) >= 2
    \/ stages[i][1] \in NoiseWords /\ Len(stages) > 1
HasUnknownKind(parsed) == \E i \in 1..Len(parsed) : parsed[i].kind = "unknown"

\* C11: the title of every summary is "Explored" exactly when parsed is not
\* empty and has no entry of kind unknown, and "Ran" otherwise; a command
\* with an ls stage and a stage of an unrecognized program is titled "Ran",
\* and so is a command all of whose stages are dropped (cd, formatting).
C11_TitleExploredIff ==
    IsSome(cmdResult) =>
        /\ Get(cmdResult).title \in {"Explored", "Ran"}
        /\ Get(cmdResult).title = "Explored"
               <=> (Get(cmdResult).parsed # << >> /\ ~HasUnknownKind(Get(cmdResult).parsed))
        /\ ( /\ \E i \in 1..Len(cmdInput.stages) : cmdInput.stages[i][1] = "ls"
             /\ \E i \in 1..Len(cmdInput.stages) : cmdInput.stages[i][1] \notin KnownWords )
           => Get(cmdResult).title = "Ran"
        /\ ( /\ cmdInput.stages # << >>
             /\ \A i \in 1..Len(cmdInput.stages) : DroppedStage(cmdInput.stages, i) )
           => Get(cmdResult).parsed = << >> /\ Get(cmdResult).title = "Ran"

C11_Witness ==
    /\ cmdInput.stages = << << "ls" >>, << "npm", "run", "ci" >> >>
    /\ IsSome(cmdResult)
    /\ Get(cmdResult).title = "Ran"
    /\ Len(Get(cmdResult).parsed) = 2
    /\ Get(cmdResult).parsed[1].kind = "list"
    /\ Get(cmdResult).parsed[2].kind = "unknown"

\* the classified stages of the drawn command, before duplicates are collapsed
ClassifiedStages ==
    ParseSegments(FilterSegments(splitOnConnectors(normalizeToTokens(Trim(Render(cmdInput))))))

EqualInFourFields(a, b) ==
    a.kind = b.kind /\ a.raw = b.raw /\ a.path = b.path /\ a.query = b.query

\* the positions of seq that open a maximal run of entries equal in the four fields
RunStarts(seq) ==
    {i \in 1..Len(seq) : i = 1 \/ ~EqualInFourFields(seq[i - 1], seq[i])}
\* the k-th smallest member of a set of positions
NthOf(positions, k) ==
    CHOOSE i \in positions : Cardinality({j \in positions : j < i}) = k - 1
\* seq with every maximal run collapsed to its first entry
RunsCollapsed(seq) ==
    [k \in 1..Cardinality(RunStarts(seq)) |-> seq[NthOf(RunStarts(seq), k)]]

\* parsed is pre (the classified stages) with its runs collapsed
CollapsedFrom(pre, parsed) ==
    /\ parsed = RunsCollapsed(pre)
    /\ \A i \in 2..Len(parsed) : ~EqualInFourFields(parsed[i - 1], parsed[i])
    /\ \A i, j \in 1..Len(pre) :
           ( /\ i < j
             /\ EqualInFourFields(pre[i], pre[j])
             /\ \E k \in (i + 1)..(j - 1) : ~EqualInFourFields(pre[i], pre[k]) )
           => Cardinality({k \in 1..Len(parsed) : EqualInFourFields(parsed[k], pre[i])}) >= 2

\* C12: parsed is the sequence of classified stages with every maximal run
\* of consecutive entries equal in (kind, raw, path, query) collapsed to its
\* first entry: no two adjacent entries of parsed are equal in the four
\* fields, and equal entries with a different entry between them are kept.
C12_ConsecutiveDuplicatesCollapsed ==
    IsSome(cmdResult) =>
        CollapsedFrom(ClassifiedStages, Get(cmdResult).parsed)

C12_Witness ==
    /\ cmdInput.stages = << << "cat", "a.ts" >>, << "cat", "a.ts" >>, << "ls" >> >>
    /\ IsSome(cmdResult)
    /\ Len(ClassifiedStages) = 3
    /\ Len(Get(cmdResult).parsed) = 2
    /\ Get(cmdResult).parsed[1].raw = "cat a.ts"
    /\ Get(cmdResult).parsed[2].kind = "list"

\* the directories and the path of the drawn cd-then-read command
CdDirsOf(stages) == [i \in 1..(Len(stages) - 1) |-> stages[i][2]]
ReadPathOf(stages) == stages[Len(stages)][Len(stages[Len(stages)])]

\* the directories that count: those from the last absolute one on
LastAbsolute(dirs) ==
    IF \E i \in 1..Len(dirs) : PathIsAbsolute(dirs[i])
    THEN CHOOSE i \in 1..Len(dirs) :
             PathIsAbsolute(dirs[i]) /\ \A j \in (i + 1)..Len(dirs) : ~PathIsAbsolute(dirs[j])
    ELSE 1
\* the normalized join of d1, ..., dk and p
NormalizedJoin(dirs, p) ==
    IF PathIsAbsolute(p) THEN p
    ELSE PathNormalize(Join(Append(SubSeq(dirs, LastAbsolute(dirs), Len(dirs)), p), "/"))

\* parsed is one read entry for the last stage, at the joined path
OneReadAt(parsed, stages) ==
    /\ Len(parsed) = 1
    /\ parsed[1].kind = "read"
    /\ parsed[1].raw = Join(stages[Len(stages)], " ")
    /\ parsed[1].path = Some(NormalizedJoin(CdDirsOf(stages), ReadPathOf(stages)))
    /\ parsed[1].name = Some(shortDisplayPath(NormalizedJoin(CdDirsOf(stages), ReadPathOf(stages))))

\* the last stage is one parseCommands classifies: a two-word head or tail
\* in a command of several stages is dropped as formatting before that
SurvivesFilter(stages) == ~isSmallFormatting(stages[Len(stages)], Len(stages) > 1)

WcCatSummarized ==
    /\ lastOp.op = "summarizeCommand"
    /\ lastOp.input = "wc -l foo.ts | cat"
    /\ IsSome(cmdResult)

\* C14 as stated: for  wc -l foo.ts | cat  parsed is exactly one entry, the
\* cat stage, of kind read.
C14_Original ==
    WcCatSummarized =>
        /\ Len(Get(cmdResult).parsed) = 1
        /\ Get(cmdResult).parsed[1].raw = "cat"
        /\ Get(cmdResult).parsed[1].kind = "read"

\* C14 (amended): for  wc -l foo.ts | cat  the wc stage is dropped and parsed
\* is exactly one entry, the cat stage, of kind unknown: a cat without an
\* operand reads no file.
C14_WcDroppedCatUnknown ==
    WcCatSummarized =>
        /\ Get(cmdResult).parsed = << UnknownCommand(<< "cat" >>) >>
        /\ Get(cmdResult).title = "Ran"
        /\ Get(cmdResult).summary = "Ran cat"

C14_Witness ==
    /\ WcCatSummarized
    /\ cmdInput.stages = << << "wc", "-l", "foo.ts" >>, << "cat" >> >>
    /\ Len(Get(cmdResult).parsed) = 1
    /\ Get(cmdResult).parsed[1].kind = "unknown"

\* the sed stage of the drawn command came out as a read of its path with
\* these bounds
SedReadWith(lineStart, lineEnd) ==
    /\ Len(Get(cmdResult).parsed) = 1
    /\ Get(cmdResult).parsed[1].kind = "read"
    /\ Get(cmdResult).parsed[1].path = Some(cmdInput.path)
    /\ Get(cmdResult).parsed[1].raw = Join(cmdInput.stages[1], " ")
    /\ Get(cmdResult).parsed[1].lineStart = Some(lineStart)
    /\ Get(cmdResult).parsed[1].lineEnd = Some(lineEnd)

\* the last line R names: its end, or its start when it names one line
SedEndOf(c) == IF IsSome(c.end) THEN Get(c.end) ELSE c.start

\* C15 as stated: every stage sed -n R path with decimal numbers is a read
\* of path with lineStart = start - 1 and lineEnd = end - 1, lineEnd being
\* lineStart when R names a single line.
C15_Original ==
    IsSome(cmdResult) => SedReadWith(cmdInput.start - 1, SedEndOf(cmdInput) - 1)

\* C15 (amended): the same for line numbers of value at least 1; a start of
\* 0 gives lineStart 0, and an end of 0 gives lineEnd = lineStart.
C15_SedRangeZeroBased ==
    IsSome(cmdResult) =>
        /\ (cmdInput.start >= 1 /\ SedEndOf(cmdInput) >= 1)
               => SedReadWith(cmdInput.start - 1, SedEndOf(cmdInput) - 1)
        /\ cmdInput.start = 0
               => SedReadWith(0, IF SedEndOf(cmdInput) >= 1 THEN SedEndOf(cmdInput) - 1 ELSE 0)
        /\ (cmdInput.start >= 1 /\ SedEndOf(cmdInput) = 0)
               => SedReadWith(cmdInput.start - 1, cmdInput.start - 1)

C15_Witness ==
    /\ lastOp.op = "summarizeCommand"
    /\ lastOp.input = "sed -n 10,20p foo.ts"
    /\ IsSome(cmdResult)
    /\ Get(cmdResult).parsed[1].lineStart = Some(9)
    /\ Get(cmdResult).parsed[1].lineEnd = Some(19)

\* C16: for every input string, the empty and the whitespace-only ones
\* included, displayCommand of the summary is the input without its leading
\* and trailing white space.
C16_DisplayCommandTrimmed ==
    (lastOp.op = "summarizeCommand" /\ IsSome(cmdResult))
        => Get(cmdResult).displayCommand = Trim(lastOp.input)

IsPrefix(a, b) == Len(a) <= Len(b) /\ SubSeq(b, 1, Len(a)) = a

\* what the message log may do when the webview handles message
LogStep(message, before, after) ==
    /\ message.type # "clearMessages" => IsPrefix(before, after)
    /\ message.type = "appendMessage"
           => Len(after) = Len(before) + 1 /\ Last(after) = NormalizeMessage(message)
    /\ message.type \in {"setBusy", "reasoningUpdate", "authState", "reasoningState"}
           => after = before
    /\ message.type = "clearMessages" => after = << >>

\* C17: the message log of the webview is append-only: handling a host
\* message other than clearMessages keeps the log as a prefix of the new
\* log; appendMessage adds one entry at the end; setBusy, reasoningUpdate,
\* authState and reasoningState change no entry; clearMessages empties it.
C17_MessageLogAppendOnly ==
    [][lastOp'.op = "hostMessage" => LogStep(Last(posted'), ui.messages, ui'.messages)]_vars

C17_Witness ==
    /\ lastOp.op = "hostMessage"
    /\ Len(posted) = 3
    /\ posted[1] = TextMessage("user", "hi")
    /\ posted[2] = SetBusyMessage(FALSE)
    /\ posted[3].type = "appendMessage" /\ posted[3].role = None
    /\ Len(ui.messages) = 2
    /\ ui.messages[1].text = "hi"
    /\ ui.messages[2].role = "assistant"

\* the reasoning events of the model's children and the text each carries
ReasoningLines == {LineReasoning, LineReasoningNext}
ReasoningTextOf(line) == OrElse(Get(Get(JsonParse(Trim(line))).item).text, "")
ReasoningUpdates == {ReasoningUpdateMessage(Some(ReasoningTextOf(l))) : l \in ReasoningLines}

\* what the step just taken posted, and the message the webview just handled
NewPosts == SubSeq(posted', Len(posted) + 1, Len(posted'))
HandledMessage == posted[delivered']

\* the host's side: a reasoning event posts its text, an agent message ends
\* with the update that clears it, and no other step posts a reasoning text
ReasoningPosted ==
    /\ (lastOp'.op = "line" /\ lastOp'.input \in ReasoningLines)
           => NewPosts = << ReasoningUpdateMessage(Some(ReasoningTextOf(lastOp'.input))) >>
    /\ (lastOp'.op = "line" /\ lastOp'.input = LineAgentMessage)
           => Len(NewPosts) = 2 /\ Last(NewPosts) = ReasoningUpdateMessage(None)
    /\ \A i \in 1..Len(NewPosts) :
           (NewPosts[i].type = "reasoningUpdate" /\ IsSome(NewPosts[i].text))
               => lastOp'.op = "line" /\ lastOp'.input \in ReasoningLines

\* the webview's side
ReasoningShown ==
    /\ (lastOp'.op = "hostMessage" /\ HandledMessage.type = "reasoningUpdate")
           => ui'.reasoning = OrElse(HandledMessage.text, "")
    /\ (lastOp'.op = "hostMessage" /\ HandledMessage = SetBusyMessage(FALSE))
           => ui'.reasoning = ""
    /\ (ui'.reasoning # ui.reasoning /\ ui'.reasoning # "")
           => lastOp'.op = "hostMessage" /\ HandledMessage \in ReasoningUpdates

\* C18: once a reasoning event is handled the reasoning text is that
\* event's text, whatever it was before; once an agent message or the end
\* of the run (setBusy false) is handled it is empty; and only a reasoning
\* event makes it non-empty again.
C18_ReasoningText ==
    [][ReasoningPosted /\ ReasoningShown]_vars

C18_Witness ==
    /\ lastOp.op = "hostMessage" /\ lastOp.outcome = "reasoningUpdate"
    /\ delivered >= 2
    /\ posted[delivered - 1] = ReasoningUpdateMessage(Some("**Listing files**"))
    /\ posted[delivered] = ReasoningUpdateMessage(Some("**Reading a.ts**"))
    /\ ui.reasoning = "**Reading a.ts**"
    /\ ui.busy

\* the values authStatus takes in the step just taken, its old value first:
\* every assignment to authStatus is followed by postAuthState of the value
NewAuthStatuses ==
    [i \in 1..Len(Filter(NewPosts, LAMBDA m : m.type = "authState")) |->
        Filter(NewPosts, LAMBDA m : m.type = "authState")[i].status]
StepPath == << authStatus >> \o NewAuthStatuses

\* the transitions of the login sub-flow as the claim lists them
ClaimedTransition(a, b) ==
    \/ a = b
    \/ b = "checking"
    \/ b = "loggingIn"
    \/ a = "checking" /\ b \in {"loggedIn", "loggedOut"}
    \/ a = "loggingIn" /\ b \in {"loggedIn", "loggedOut", "error"}

AssignedBy(op) ==
    CASE op \in {"resolveWebviewView", "requestStatus"} ->
            {<< "checking" >>, << "checking", "error" >>}
      [] op = "requestLogin" -> {<< "loggingIn" >>, << "loggingIn", "error" >>}
      [] op = "statusCheckClosed" -> {<< "loggedIn" >>, << "loggedOut" >>}
      [] op = "authChildError" -> {<< "error" >>}
      [] op = "loginClosed" -> {<< "checking" >>, << "checking", "error" >>, << "error" >>}
      [] OTHER -> {<< >>}

IsHeaderLine(line) == \E h \in DiffHeaders : h[1] = line
StartOf(line) == (CHOOSE h \in DiffHeaders : h[1] = line)[2]
IsAddedLine(line) == StartsWith(line, "+") /\ ~StartsWith(line, "+++")
IsContextLine(line) == StartsWith(line, " ")
HeaderLines(lines) == {i \in 1..Len(lines) : IsHeaderLine(lines[i])}
MinOf(positions) == CHOOSE i \in positions : \A j \in positions : i <= j
MaxOf(positions) == CHOOSE i \in positions : \A j \in positions : j <= i
\* the added lines of the hunk that header h opens, up to the next header
AddedInHunk(lines, h) ==
    {i \in (h + 1)..Len(lines) :
        IsAddedLine(lines[i]) /\ \A j \in (h + 1)..i : ~IsHeaderLine(lines[j])}
\* the added lines of any hunk
AddedInDiff(lines) == UNION {AddedInHunk(lines, h) : h \in HeaderLines(lines)}
\* the new-file number of line i of the hunk that header h opens
NewFileLine(lines, h, i) ==
    StartOf(lines[h]) + Cardinality({j \in (h + 1)..(i - 1) : IsContextLine(lines[j])})
HunkOf(lines, i) == MaxOf({h \in HeaderLines(lines) : h < i})

\* the line the forwarded message carries for the change
ForwardedChange == Get(posted[1].fileChanges)[1]
DerivedLine == ForwardedChange.line

\* C20 as stated: with a diff, line is the new-file number of the first
\* added line of the first hunk, and the first hunk's start when the first
\* hunk has no added line; without a diff, line is absent.
C20_Original ==
    lastOp.op = "fileChange" =>
        /\ cmdInput.diff = None => DerivedLine = None
        /\ HeaderLines(cmdInput.lines) # {} =>
              DerivedLine =
                 IF AddedInHunk(cmdInput.lines, MinOf(HeaderLines(cmdInput.lines))) # {}
                 THEN Some(NewFileLine(cmdInput.lines, MinOf(HeaderLines(cmdInput.lines)),
                              MinOf(AddedInHunk(cmdInput.lines, MinOf(HeaderLines(cmdInput.lines))))))
                 ELSE Some(StartOf(cmdInput.lines[MinOf(HeaderLines(cmdInput.lines))]))

\* the first added line of lines, numbered within its own hunk
FirstAddedOf(lines) ==
    NewFileLine(lines, HunkOf(lines, MinOf(AddedInDiff(lines))), MinOf(AddedInDiff(lines)))

\* C20 (amended): with a diff, line is the new-file number of the first
\* added line of the diff, in whichever hunk it stands (the start of that
\* hunk plus the context lines before it, deleted lines not counted), and
\* the first hunk's start when no hunk has an added line; a diff without a
\* hunk, and a change without a diff, have no line.  The diff
\* "@@ -1,3 +1,4 @@" followed by an added line gives 1.
C20_FirstAddedLine ==
    lastOp.op = "fileChange" =>
        /\ Len(posted) = 1 /\ Len(Get(posted[1].fileChanges)) = 1
        /\ cmdInput.diff = None => DerivedLine = None
        /\ HeaderLines(cmdInput.lines) = {} => DerivedLine = None
        /\ AddedInDiff(cmdInput.lines) # {} => DerivedLine = Some(FirstAddedOf(cmdInput.lines))
        /\ (HeaderLines(cmdInput.lines) # {} /\ AddedInDiff(cmdInput.lines) = {})
               => DerivedLine = Some(StartOf(cmdInput.lines[MinOf(HeaderLines(cmdInput.lines))]))
        /\ cmdInput.lines = << "@@ -1,3 +1,4 @@", "+add" >> => DerivedLine = Some(1)

C20_Witness ==
    /\ lastOp.op = "fileChange"
    /\ cmdInput.lines = << "@@ -1,3 +1,4 @@", " ctx", "-del", "+add" >>
    /\ ForwardedChange.diff = cmdInput.diff
    /\ DerivedLine = Some(2)

\* the names a changed path may go by: as given, relative to cwd, basename
NamesOf(p, cwd) ==
    {p, PathBasename(p)}
        \cup (IF IsSome(cwd) /\ StartsWith(p, Get(cwd) \o "/")
              THEN {SubSeq(p, Len(Get(cwd)) + 2, Len(p))} ELSE {})
\* the marker lines that name a file
MarkersFor(name) ==
    { "*** " \o verb \o " File: " \o name : verb \in {"Update", "Add", "Delete"} }
        \cup { "diff --git a/" \o name \o " b/" \o name, "+++ b/" \o name }
NamesPath(text, names) ==
    \E i \in 1..Len(SplitLines(text)) : \E n \in names : SplitLines(text)[i] \in MarkersFor(n)
\* the pieces of the output that are patches of files
IsPatchOf(block, names) == \E n \in names : block \in {PatchFor(n), GitDiffFor(n)}
OnlyOtherFiles(text, names) ==
    /\ \E b \in OutputBlocks : Includes(text, b) /\ b # "Done"
    /\ \A b \in OutputBlocks : Includes(text, b) => ~IsPatchOf(b, names)

\* C21: the diff taken from the last command's output for a changed path
\* contains a patch marker naming that path (as given, relative to cwd or
\* by basename); output that holds patches of other files only gives no diff.
C21_FallbackNamesPath ==
    lastOp.op = "fileChange" =>
        /\ IsSome(Get(posted[1].fileChanges)[1].diff)
              => NamesPath(Get(Get(posted[1].fileChanges)[1].diff), NamesOf(cmdInput.path, cmdInput.cwd))
        /\ (IsSome(cmdInput.output)
               /\ OnlyOtherFiles(Get(cmdInput.output), NamesOf(cmdInput.path, cmdInput.cwd)))
              => Get(posted[1].fileChanges)[1].diff = None

IsEditedFilesMessage(m) ==
    /\ m.type = "appendMessage"
    /\ m.role = Some("command")
    /\ m.friendlyTitle = Some("Edited files")

\* C22: every file_change event, an event with a malformed change entry
\* included, appends exactly one command-role "Edited files" message.
C22_EditedFilesAlwaysAppended ==
    lastOp.op = "fileChangeLine" => (Len(posted) = 1 /\ IsEditedFilesMessage(posted[1]))

\* the operands of a search command: its arguments that are neither a flag
\* nor the value of a flag
Operands(arguments) ==
    Flatten([i \in 1..Len(arguments) |->
                IF StartsWith(arguments[i][1], "-") THEN << >> ELSE arguments[i]])
HasFilesFlag(c) == c.program = "rg" /\ \E i \in 1..Len(c.arguments) : c.arguments[i] = << "--files" >>

\* C23: for an rg or grep stage, query is the first operand and path the
\* next one (for rg --files there is no query and path is the first
\* operand); the value of a value-taking flag is neither.
C23_SearchSkipsFlagValues ==
    IsSome(cmdResult) =>
        /\ Len(Get(cmdResult).parsed) = 1
        /\ Get(cmdResult).parsed[1].kind = "search"
        /\ Get(cmdResult).parsed[1].query =
              (IF HasFilesFlag(cmdInput) THEN None ELSE At(Operands(cmdInput.arguments), 1))
        /\ Get(cmdResult).parsed[1].path =
              At(Operands(cmdInput.arguments), IF HasFilesFlag(cmdInput) THEN 1 ELSE 2)

NonFlagArguments(arguments) == Filter(arguments, LAMBDA a : ~StartsWith(a, "-"))

\* C24: a cat stage is a read exactly when it has exactly one non-flag
\* argument, and then of that argument, with lineStart 0 and no lineEnd;
\* with none or with two or more it is unknown.
C24_CatReadsOneNonFlag ==
    IsSome(cmdResult) =>
        /\ Len(Get(cmdResult).parsed) = 1
        /\ IF Len(NonFlagArguments(cmdInput.arguments)) = 1
           THEN /\ Get(cmdResult).parsed[1].kind = "read"
                /\ Get(cmdResult).parsed[1].path = Some(NonFlagArguments(cmdInput.arguments)[1])
                /\ Get(cmdResult).parsed[1].lineStart = Some(0)
                /\ Get(cmdResult).parsed[1].lineEnd = None
           ELSE Get(cmdResult).parsed[1].kind = "unknown"

\* the path operands of a head or tail stage: its arguments that are neither
\* a flag nor a count
PathOperands(arguments) ==
    Flatten([i \in 1..Len(arguments) |->
                IF StartsWith(arguments[i][1], "-") THEN << >> ELSE arguments[i]])
\* the other stage of the command always leaves one entry in parsed
HeadTailRemoved(result) == Len(result.parsed) = 1
HeadTailEntry(result, c) == result.parsed[IF c.first THEN 1 ELSE 2]

\* C25: in a command of more than one stage a head or tail stage is removed
\* from parsed exactly when it has no path operand, and one that remains is
\* a read of its path operand.
C25_HeadTailDroppedWithoutPath ==
    IsSome(cmdResult) =>
        /\ HeadTailRemoved(Get(cmdResult)) <=> PathOperands(cmdInput.arguments) = << >>
        /\ ~HeadTailRemoved(Get(cmdResult)) =>
              /\ HeadTailEntry(Get(cmdResult), cmdInput).kind = "read"
              /\ HeadTailEntry(Get(cmdResult), cmdInput).path
                    = At(PathOperands(cmdInput.arguments), 1)

\* C26: once every posted message has been delivered, the webview's busy
\* flag is the host's: during a run no message but the run's final setBusy
\* clears it, an authState message in particular does not.
C26_WebviewBusyFollowsHost ==
    delivered = Len(posted) => ui.busy = busy

\* a line of run r is handled in this step
LineOfRun(r) == lastOp' # lastOp /\ lastOp'.op = "line" /\ lastOp'.run = r
LineStepOfSettledRun ==
    \E r \in 1..Len(runs) :
        LineOfRun(r) /\ runs[r].result # "pending" /\ runs'[r].lines = runs[r].lines + 1

\* C27: no line of a run is handled after runExec has settled for that run,
\* so nothing of a run is posted after its setBusy{busy:false}.
C27_NoEventAfterIdle ==
    [][~LineStepOfSettledRun]_vars

ExploringStage(stage) ==
    \/ stage[1] = "cd"
    \/ summarizeMainTokens(stage).kind \in {"read", "list", "search"}

\* C28: a command titled "Explored" has only stages that are a cd or are
\* classified as read, list or search; a command with a stage that runs
\* another program (sed without a -n range, say) is never titled "Explored".
C28_ExploredOnlyExplores ==
    (IsSome(cmdResult) /\ Get(cmdResult).title = "Explored")
        => \A i \in 1..Len(cmdInput.stages) : ExploringStage(cmdInput.stages[i])

\* C29: once every status check and login has completed, authStatus is
\* the outcome of the one started last; an operation that started earlier
\* and finishes later does not overwrite it.
C29_LastStartedWins ==
    (authOps = << >> /\ IsSome(cmdResult)) => authStatus = Get(cmdResult)

\* the read parts of the command messages received so far
ReadPartsReceived ==
    UNION { { posted[i].parsed[1][j] : j \in 1..Len(posted[i].parsed[1]) } :
              i \in { k \in 1..Len(posted) :
                        /\ posted[k].type = "appendMessage"
                        /\ posted[k].role = Some("command")
                        /\ IsSome(posted[k].parsed) } }
OpensPart(m, part) ==
    /\ part.kind = "read"
    /\ m.path \in {OrElse(part.absPath, ""), OrElse(part.path, "")} \ {""}
SameOpening(m, n) ==
    m.path = n.path /\ m.selection.start = n.selection.start /\ m.selection.end = n.selection.end

\* C30: whatever messages are appended to the log, the hook posts openPath
\* only for read parts of command messages, and at most once for each
\* (target path, start line, end line).
C30_AutoOpenOncePerKey ==
    /\ \A i \in 1..Len(ui.openPaths) :
          /\ ui.openPaths[i].type = "openPath" /\ ~ui.openPaths[i].isDir
          /\ \E part \in ReadPartsReceived : OpensPart(ui.openPaths[i], part)
    /\ \A i, j \in 1..Len(ui.openPaths) :
          SameOpening(ui.openPaths[i], ui.openPaths[j]) => i = j

\* two messages with the same read have been walked and it was opened once
C30_Witness ==
    /\ lastOp.op = "autoOpen"
    /\ ui.renderedCount = 3
    /\ posted[1] = ParsedMessage(Some(<< ReadWhole, ReadWhole >>))
    /\ posted[2] = ParsedMessage(Some(<< ReadFromZero >>))
    /\ posted[3] = ParsedMessage(Some(<< ReadAbsolute, ListedPart >>))
    /\ ui.openPaths = << OpenPathMessage("a.ts", 0, 0), OpenPathMessage("/w/a.ts", 0, 4) >>

====
